---- MODULE Spec2Model ----
\* A model of the read path of the ORC C++ reader: ReaderImpl (Reader.cc),
\* the RLE v2 integer decoder (RLEv2.cc) and the file-scan tool (FileScan.cc).
EXTENDS Integers, Sequences, FiniteSets, TLC

\* ---------------------------------------------------------------- bounds

\* unsigned long is modelled with ULongBits bits (64 in the build); sums of
\* unsigned long wrap modulo 2^ULongBits exactly as they wrap modulo 2^64.
ULongBits == 8
\* a file holds at most MaxStripes stripes
MaxStripes == 2
\* a stripe holds 0..MaxRows rows (numberofrows is an optional uint64 field)
MaxRows == 2
\* a batch is created with a capacity of 0..MaxCapacity
MaxCapacity == 2
\* ReaderOptions::range(offset, length): offset in 0..MaxRangeOffset
MaxRangeOffset == 4
\* ... and length in 0..MaxRangeLength, or the default (the largest unsigned long)
MaxRangeLength == 3

\* an integer stream holds 1..MaxRuns runs
MaxRuns == 2
\* a call of next with a notNull mask asks for 1..MaxMaskedN slots
MaxMaskedN == 2
\* a call of next without a mask asks for 0..MaxPlainN slots, or for all
\* the values left in the stream
MaxPlainN == 2
\* the caller of a decoder makes at most MaxCalls calls of next
MaxCalls == 2

\* a schema holds 1..MaxTypes types (footer.types), the root included
MaxTypes == 5
\* ReaderOptions::include is given a list of 0..MaxInclude column ids
MaxInclude == 2

\* a file is 0..MaxFileLen bytes long
MaxFileLen == 9
\* the last byte of a file is 0..MaxPostscriptLength
MaxPostscriptLength == 5

\* types of a schema whose statistics are read
MaxStatTypes == 4

\* types of a schema a column reader is built for
MaxBuildTypes == 3

\* calls of seekToRow on one reader
MaxSeeks == 1
\* the null rows a PRESENT stream marks
MaxPresentNulls == 1
\* the calls of next and skip made on a column reader
MaxTrace == 3
\* the values asked of a decoder after a call of skip or seek
MaxAfterSkip == 3

\* ------------------------------------------------------------- variables

VARIABLES
  \* the file and the options: inputs of ReaderImpl
  stripes,             \* footer.stripes: sequence of [offset, numberofrows]
  badStripe,           \* 0, or the (1-based) index of the one corrupt stripe
  badKind,             \* "footer": its stripe footer does not parse;
                       \* "stream": one of its column streams is corrupt
  optOffset,           \* ReaderOptions dataStart
  optLength,           \* ReaderOptions dataLength
  \* ReaderImpl fields
  currentStripe,
  lastStripe,
  currentRowInStripe,
  rowsInCurrentStripe,
  previousRow,
  \* the caller's batch
  capacity,
  numElements,
  \* what the last call of next did: "none" before the first call, "true",
  \* "false", "error" (an exception reached the caller), "crash" (the process
  \* died in undefined behaviour)
  ret,
  \* history: the stripes startNextStripe was called for (0-based indexes),
  \* and the rows each stripe delivered in calls that returned true
  started,
  rowsRead,
  \* file-scan's main: pc, rows, batches
  pc,
  rows,
  batches,
  \* an RleDecoderV2 and its caller
  runs,                \* the runs encoded in the decoder's input stream
  dec,                 \* the decoder
  lastN,               \* numValues of the last call of next
  lastMask,            \* notNull of the last call of next
  valuesBefore,        \* values handed out before the last call of next
  valuesRead,          \* values handed out by the calls that returned
  calls,               \* the calls of next made
  allMasked,           \* every call so far passed a notNull mask
  allPlain,            \* every call so far passed no mask
  location,            \* the position last handed to seek: <<byte, values>>
  rleRet,              \* the last call: "none", "ok", "error" (it threw)
  \* column selection in the constructor of ReaderImpl
  types,               \* footer.types: types[k] is the subtypes list of type k
  included,            \* options.getInclude()
  selectedColumns,     \* ReaderImpl::selectedColumns
  selectDone,          \* the constructor has run its loop over the include list
  \* the magic check in the constructor of ReaderImpl
  fileBytes,           \* the bytes of the file
  tailLocation,        \* ReaderOptions tailLocation
  postscriptLength,    \* ReaderImpl::postscriptLength
  frontRead,           \* ensureOrcFooter has read the first bytes of the file
  openResult,          \* "new" before the constructor runs, "magic ok", one
                       \* of the ParseErrors, or "crash"
  \* the other calls on a ReaderImpl
  seekRet,             \* the last call of seekToRow: "none", or what it threw
  stripeRet,           \* the last call of getStripe: "none", the stripe
                       \* information returned, or what it threw
  \* a reader over a file whose integer column is corrupt
  firstError,          \* what the first failed call of next threw, or "none"
  lastError,           \* what the last call of next threw, or "none"
  \* the typed schema and the file statistics
  kinds,               \* kinds[k] is the kind of type k of footer.types
  statsRet,            \* the call of getStatistics: called, and the list it
                       \* returned
  \* building the column readers of a stripe
  encoding,            \* the ColumnEncoding kind of the stripe's columns
  buildRet,            \* the call of buildReader: called, and the reader it
                       \* returned or what it threw
  \* the column readers of a stripe: a struct column and its long field
  present,             \* the PRESENT streams of the two columns
  tree,                \* the two readers and the batch of their last next
  trace,               \* the calls of next and skip made on the struct reader
  \* the bit widths of RLE v2
  numBits,             \* a number of bits, the argument of getClosestFixedBits
  code,                \* a width code of a run header
  closestRet,          \* what getClosestFixedBits(numBits) returned: called, value
  widthRet,            \* what decodeBitWidth(code) returned: called, value
  \* two ReaderOptions objects
  rhs,                 \* the object copied or assigned from
  self,                \* the object constructed from rhs or assigned to
  optionsCall          \* the last call on the two objects

readerVars == <<stripes, badStripe, badKind, optOffset, optLength,
                currentStripe, lastStripe, currentRowInStripe,
                rowsInCurrentStripe, previousRow, capacity, numElements, ret,
                started, rowsRead, pc, rows, batches, seekRet, stripeRet>>

rleVars == <<runs, dec, lastN, lastMask, valuesBefore, valuesRead, calls,
            allMasked, allPlain, location, rleRet>>

selectVars == <<types, included, selectedColumns, selectDone>>

magicVars == <<fileBytes, tailLocation, postscriptLength, frontRead, openResult>>

poisonVars == <<firstError, lastError>>

\* the variables of the parts added to the reader, the decoder, the column
\* selection and the magic check
statVars == <<kinds, statsRet>>

buildVars == <<encoding, buildRet>>

colVars == <<present, tree, trace>>

widthVars == <<numBits, code, closestRet, widthRet>>

optionVars == <<rhs, self, optionsCall>>

moreVars == <<widthVars, optionVars>>

extraVars == <<poisonVars, statVars, buildVars, colVars, moreVars>>

vars == <<readerVars, rleVars, selectVars, magicVars, extraVars>>

\* ------------------------------------------------------------- helpers

RECURSIVE Pow2(_)
Pow2(n) == IF n = 0 THEN 1 ELSE 2 * Pow2(n - 1)

\* std::numeric_limits<unsigned long>::max()
ULongMax == Pow2(ULongBits) - 1

\* unsigned long arithmetic wraps
WrapULong(x) == x % Pow2(ULongBits)

Min(a, b) == IF a < b THEN a ELSE b

NumStripes == Len(stripes)

\* stripe i (1-based) of a file sits at offset 2*i - 1: stripes are laid out
\* one after the other, so their offsets increase with the index
StripeOffset(i) == 2 * i - 1

StripeLists ==
  UNION { { [i \in 1..n |-> [offset |-> StripeOffset(i), numberofrows |-> r[i]]]
            : r \in [1..n -> 0..MaxRows] } : n \in 0..MaxStripes }

RECURSIVE SumRows(_, _)
\* rowTotal after the first n stripes of the list s
SumRows(s, n) == IF n = 0 THEN 0 ELSE SumRows(s, n - 1) + s[n].numberofrows

\* firstRowOfStripe[i] for the 0-based stripe index i
FirstRowOfStripe(i) == SumRows(stripes, i)

\* ------------------------------------------------- ReaderImpl, constructor

\* isStripeInRange for the stripe at 1-based index i; the sum wraps
IsStripeInRange(i) ==
  /\ stripes[i].offset >= optOffset
  /\ stripes[i].offset < WrapULong(optOffset + optLength)

InRange == { i \in 1..NumStripes : IsStripeInRange(i) }

\* currentStripe after the constructor's loop: it starts at stripes_size()
\* and is lowered to every in-range index below it
CtorCurrentStripe ==
  IF InRange = {} THEN NumStripes
  ELSE CHOOSE i \in { j - 1 : j \in InRange } :
         \A k \in { j - 1 : j \in InRange } : i <= k

\* lastStripe after the constructor's loop: it starts at 0 and is raised to
\* every in-range index above it
CtorLastStripe ==
  IF InRange = {} THEN 0
  ELSE CHOOSE i \in { j - 1 : j \in InRange } :
         \A k \in { j - 1 : j \in InRange } : i >= k

RangeLengths == (0..MaxRangeLength) \cup {ULongMax}

\* the decoder's part of the state when no decoder is looked at
RleIdle ==
  /\ runs = << >>
  /\ dec = << >>
  /\ lastN = 0
  /\ lastMask = << >>
  /\ valuesBefore = 0
  /\ valuesRead = 0
  /\ calls = 0
  /\ allMasked = TRUE
  /\ allPlain = TRUE
  /\ location = << >>
  /\ rleRet = "none"

\* the column selection's part of the state when no selection is looked at
SelectIdle ==
  /\ types = << >>
  /\ included = << >>
  /\ selectedColumns = << >>
  /\ selectDone = FALSE

\* the magic check's part of the state when no magic check is looked at
MagicIdle ==
  /\ fileBytes = << >>
  /\ tailLocation = 0
  /\ postscriptLength = 0
  /\ frontRead = FALSE
  /\ openResult = "idle"

\* no call of seekToRow was made
NoSeek == [calls |-> 0, threw |-> "none", rowBefore |-> 0]

\* a StripeInformation
StripeInfo(offset, numberofrows) ==
  [offset |-> offset, numberofrows |-> numberofrows]

\* no call of getStripe was made
NoStripe == [index |-> 0, result |-> "none", info |-> StripeInfo(0, 0)]

\* the corrupt column's part of the state when no such reader is looked at
PoisonIdle ==
  /\ firstError = "none"
  /\ lastError = "none"

\* getStatistics was not called
NoStatistics == [called |-> FALSE, list |-> << >>]

\* the statistics' part of the state when no statistics are looked at
StatIdle ==
  /\ kinds = << >>
  /\ statsRet = NoStatistics

\* buildReader was not called
NoReader == [called |-> FALSE, result |-> "none"]

\* the reader factory's part of the state when no reader is built
BuildIdle ==
  /\ encoding = "none"
  /\ buildRet = NoReader

\* the added parts when none of them is looked at
ColIdle ==
  /\ present = << >>
  /\ tree = << >>
  /\ trace = << >>

\* no function was called
NotCalled == [called |-> FALSE, value |-> 0]

\* the bit widths when none is looked at
WidthIdle ==
  /\ numBits = 0
  /\ code = 0
  /\ closestRet = NotCalled
  /\ widthRet = NotCalled

\* the ReaderOptions objects when none is looked at
OptionsIdle ==
  /\ rhs = << >>
  /\ self = << >>
  /\ optionsCall = "none"

MoreIdle == WidthIdle /\ OptionsIdle

ExtraIdle == PoisonIdle /\ StatIdle /\ BuildIdle /\ ColIdle /\ MoreIdle

InitReader ==
  /\ RleIdle
  /\ SelectIdle
  /\ MagicIdle
  /\ ExtraIdle
  /\ seekRet = NoSeek
  /\ stripeRet = NoStripe
  /\ stripes \in StripeLists
  /\ badStripe \in 0..Len(stripes)
  /\ badKind \in IF badStripe = 0 THEN {"none"} ELSE {"footer", "stream"}
  /\ optOffset \in 0..MaxRangeOffset
  /\ optLength \in RangeLengths
  /\ currentStripe = CtorCurrentStripe
  /\ lastStripe = CtorLastStripe
  /\ currentRowInStripe = 0
  /\ rowsInCurrentStripe = 0
  /\ previousRow = ULongMax
  /\ capacity \in 0..MaxCapacity
  /\ numElements = 0
  /\ ret = "none"
  /\ started = {}
  /\ rowsRead = [i \in 1..Len(stripes) |-> 0]
  /\ pc = "scan"
  /\ rows = 0
  /\ batches = 0

\* ------------------------------------------------------ file-scan's loop

\* main: while (reader->next(*batch)) { batches += 1; rows += numElements; }
\* r is what next did, n the batch's numElements after it.  An exception is
\* not caught by main.  After the loop a caller may go on calling next.
ScanLoop(r, n) ==
  IF pc # "scan" THEN UNCHANGED <<pc, rows, batches>>
  ELSE IF r = "true"
    THEN /\ batches' = batches + 1
         /\ rows' = rows + n
         /\ pc' = "scan"
    ELSE /\ pc' = (IF r = "false" THEN "done" ELSE "failed")
         /\ UNCHANGED <<rows, batches>>

fileVars == <<stripes, badStripe, badKind, optOffset, optLength, capacity>>

\* the process has not died in undefined behaviour
Alive == ret # "crash" /\ stripeRet.result # "crash"

\* ------------------------------------------------------ ReaderImpl::next

\* next, first branch: currentStripe > lastStripe
NextAtEnd ==
  /\ Alive
  /\ UNCHANGED <<seekRet, stripeRet, rleVars, selectVars, magicVars, extraVars>>
  /\ currentStripe > lastStripe
  /\ NumStripes > 0
  /\ numElements' = 0
  /\ previousRow' = WrapULong(FirstRowOfStripe(lastStripe)
                              + stripes[lastStripe + 1].numberofrows)
  /\ ret' = "false"
  /\ ScanLoop("false", 0)
  /\ UNCHANGED <<fileVars, currentStripe, lastStripe, currentRowInStripe,
                 rowsInCurrentStripe, started, rowsRead>>

\* rowsToRead without the cap at the batch's capacity
RowsToReadNoCap(n, cur) == n - cur

\* rowsToRead for a stripe of n rows read from the row cursor cur
RowsToRead(n, cur) == Min(capacity, n - cur)

\* the stripe next reads from, as a 1-based index of stripes
Cur == currentStripe + 1

\* rowsInCurrentStripe as startNextStripe leaves it (when it is called)
RowsAfterStart ==
  IF currentRowInStripe = 0 THEN stripes[Cur].numberofrows
  ELSE rowsInCurrentStripe

\* does reader->next throw for this call: a stream of the stripe is corrupt
\* and the call reads rows from it
ColumnReaderThrows(n) == badStripe = Cur /\ badKind = "stream" /\ n > 0

\* next, second branch, no exception: startNextStripe at the start of a
\* stripe, then the rows are read and the cursors advance
NextReadsRows ==
  /\ Alive
  /\ UNCHANGED <<seekRet, stripeRet, rleVars, selectVars, magicVars, extraVars>>
  /\ currentStripe <= lastStripe
  /\ NumStripes > 0
  /\ ~(currentRowInStripe = 0 /\ badStripe = Cur /\ badKind = "footer")
  /\ LET n == RowsToRead(RowsAfterStart, currentRowInStripe)
         r == IF n # 0 THEN "true" ELSE "false"
     IN /\ ~ColumnReaderThrows(n)
        /\ started' = IF currentRowInStripe = 0
                      THEN started \cup {currentStripe} ELSE started
        /\ rowsInCurrentStripe' = RowsAfterStart
        /\ numElements' = n
        /\ previousRow' = WrapULong(FirstRowOfStripe(currentStripe)
                                    + currentRowInStripe)
        /\ IF currentRowInStripe + n >= RowsAfterStart
           THEN /\ currentStripe' = currentStripe + 1
                /\ currentRowInStripe' = 0
           ELSE /\ currentStripe' = currentStripe
                /\ currentRowInStripe' = currentRowInStripe + n
        /\ rowsRead' = [rowsRead EXCEPT ![Cur] = @ + n]
        /\ ret' = r
        /\ ScanLoop(r, n)
  /\ UNCHANGED <<fileVars, lastStripe>>

\* next, second branch: getStripeFooter throws inside startNextStripe, before
\* rowsInCurrentStripe and numElements are assigned
NextStripeFooterFails ==
  /\ Alive
  /\ UNCHANGED <<seekRet, stripeRet, rleVars, selectVars, magicVars, extraVars>>
  /\ currentStripe <= lastStripe
  /\ NumStripes > 0
  /\ currentRowInStripe = 0
  /\ badStripe = Cur /\ badKind = "footer"
  /\ started' = started \cup {currentStripe}
  /\ ret' = "error"
  /\ ScanLoop("error", numElements)
  /\ UNCHANGED <<fileVars, currentStripe, lastStripe, currentRowInStripe,
                 rowsInCurrentStripe, previousRow, numElements, rowsRead>>

\* next, second branch: reader->next throws, after numElements was assigned
\* and before the cursors move
NextColumnReaderFails ==
  /\ Alive
  /\ UNCHANGED <<seekRet, stripeRet, rleVars, selectVars, magicVars, extraVars>>
  /\ currentStripe <= lastStripe
  /\ NumStripes > 0
  /\ LET n == RowsToRead(RowsAfterStart, currentRowInStripe)
     IN /\ ColumnReaderThrows(n)
        /\ started' = IF currentRowInStripe = 0
                      THEN started \cup {currentStripe} ELSE started
        /\ rowsInCurrentStripe' = RowsAfterStart
        /\ numElements' = n
  /\ ret' = "error"
  /\ ScanLoop("error", numElements')
  /\ UNCHANGED <<fileVars, currentStripe, lastStripe, currentRowInStripe,
                 previousRow, rowsRead>>

\* next on a file without stripes: currentStripe = lastStripe = 0, so the
\* second branch runs and footer.stripes(0), firstRowOfStripe[0] are read
\* out of range.  The behaviour is undefined: the process dies, or the reads
\* yield arbitrary values and next goes on with them.
NextUndefined ==
  /\ Alive
  /\ UNCHANGED <<seekRet, stripeRet, rleVars, selectVars, magicVars, extraVars>>
  /\ NumStripes = 0
  /\ \/ /\ ret' = "crash"
        /\ started' = IF currentStripe <= lastStripe
                      THEN started \cup {currentStripe} ELSE started
        /\ ScanLoop("crash", numElements)
        /\ UNCHANGED <<currentStripe, currentRowInStripe,
                       rowsInCurrentStripe, previousRow, numElements>>
     \/ /\ currentStripe > lastStripe
        /\ numElements' = 0
        /\ previousRow' \in 0..MaxRows
        /\ ret' = "false"
        /\ ScanLoop("false", 0)
        /\ UNCHANGED <<currentStripe, currentRowInStripe,
                       rowsInCurrentStripe, started>>
     \/ /\ currentStripe <= lastStripe
        /\ \E garbage \in 0..MaxRows, first \in 0..MaxRows :
             LET total == IF currentRowInStripe = 0 THEN garbage
                          ELSE rowsInCurrentStripe
                 n == RowsToRead(total, currentRowInStripe)
                 r == IF n # 0 THEN "true" ELSE "false"
             IN /\ rowsInCurrentStripe' = total
                /\ numElements' = n
                /\ previousRow' = WrapULong(first + currentRowInStripe)
                /\ IF currentRowInStripe + n >= total
                   THEN /\ currentStripe' = currentStripe + 1
                        /\ currentRowInStripe' = 0
                   ELSE /\ currentStripe' = currentStripe
                        /\ currentRowInStripe' = currentRowInStripe + n
                /\ ret' = r
                /\ ScanLoop(r, n)
        /\ started' = IF currentRowInStripe = 0
                      THEN started \cup {currentStripe} ELSE started
  /\ UNCHANGED <<fileVars, lastStripe, rowsRead>>

\* ------------------------------------------------- ReaderImpl::seekToRow

\* the row cursor of a seekToRow that moved to the row
seekToRowCursorMoved(rowNumber) == rowNumber

\* currentRowInStripe after seekToRow(rowNumber): the function throws and
\* assigns nothing
seekToRowCursor(rowNumber) == currentRowInStripe

\* seekToRow(rowNumber): throw NotImplementedYet("seekToRow")
SeekToRow ==
  /\ Alive
  /\ seekRet.calls < MaxSeeks
  /\ \E rowNumber \in 0..MaxRows :
       currentRowInStripe' = seekToRowCursor(rowNumber)
  /\ seekRet' = [calls |-> seekRet.calls + 1, threw |-> "NotImplementedYet",
                 rowBefore |-> previousRow]
  /\ UNCHANGED <<fileVars, currentStripe, lastStripe, rowsInCurrentStripe,
                 previousRow, numElements, ret, started, rowsRead, pc, rows,
                 batches, stripeRet, rleVars, selectVars, magicVars, extraVars>>

\* ------------------------------------------------- ReaderImpl::getStripe

\* if (stripeIndex > getNumberOfStripes()) throw
StripeIndexGuard(stripeIndex) == stripeIndex > NumStripes

\* getStripe changes nothing of the reader
getStripeUnchanged ==
  UNCHANGED <<fileVars, currentStripe, lastStripe, currentRowInStripe,
              rowsInCurrentStripe, previousRow, numElements, ret, started,
              rowsRead, pc, rows, batches, seekRet, rleVars, selectVars,
              magicVars, extraVars>>

\* getStripe(stripeIndex) for an index the guard rejects
GetStripeThrows ==
  /\ Alive
  /\ \E stripeIndex \in 0..(NumStripes + 1) :
       /\ StripeIndexGuard(stripeIndex)
       /\ stripeRet' = [index |-> stripeIndex,
                        result |-> "stripe index out of range",
                        info |-> StripeInfo(0, 0)]
  /\ getStripeUnchanged

\* getStripe(stripeIndex) for the index of a stripe: footer.stripes(stripeIndex)
GetStripeReturns ==
  /\ Alive
  /\ \E stripeIndex \in 0..(NumStripes + 1) :
       /\ ~StripeIndexGuard(stripeIndex)
       /\ stripeIndex < NumStripes
       /\ stripeRet' = [index |-> stripeIndex, result |-> "ok",
                        info |-> StripeInfo(stripes[stripeIndex + 1].offset,
                                            stripes[stripeIndex + 1].numberofrows)]
  /\ getStripeUnchanged

\* getStripe(stripeIndex) for stripeIndex = stripes_size(): the guard lets it
\* pass and footer.stripes(stripeIndex) reads past the last stripe.  The
\* behaviour is undefined: the process dies, or the read yields arbitrary
\* stripe information.
GetStripeUndefined ==
  /\ Alive
  /\ \E stripeIndex \in 0..(NumStripes + 1) :
       /\ ~StripeIndexGuard(stripeIndex)
       /\ stripeIndex >= NumStripes
       /\ \/ stripeRet' = [index |-> stripeIndex, result |-> "crash",
                            info |-> StripeInfo(0, 0)]
          \/ \E garbage \in 0..MaxRows :
               stripeRet' = [index |-> stripeIndex, result |-> "ok",
                             info |-> StripeInfo(0, garbage)]
  /\ getStripeUnchanged

NextReader ==
  \/ NextAtEnd
  \/ NextReadsRows
  \/ NextStripeFooterFails
  \/ NextColumnReaderFails
  \/ NextUndefined
  \/ SeekToRow

SpecReader == InitReader /\ [][NextReader]_vars

\* the calls of getStripe on a reader as the constructor left it: getStripe
\* reads the footer only
NextStripe ==
  \/ GetStripeThrows
  \/ GetStripeReturns
  \/ GetStripeUndefined

SpecStripe == InitReader /\ [][NextStripe]_vars

\* ------------------------------------------------ properties of next

\* the stripes (1-based) the constructor selected: currentStripe..lastStripe
Selected == { i \in 1..NumStripes : CtorCurrentStripe < i /\ i <= CtorLastStripe + 1 }

RECURSIVE SumOver(_, _)
SumOver(f, S) ==
  IF S = {} THEN 0
  ELSE LET i == CHOOSE j \in S : TRUE IN f[i] + SumOver(f, S \ {i})

\* the rows of the selected stripes
SelectedRows == SumOver([i \in 1..NumStripes |-> stripes[i].numberofrows], Selected)

\* the stripes whose offset lies in [offset, offset + length), the sum taken
\* in the integers
OffsetInterval ==
  { i \in 1..NumStripes : /\ optOffset <= stripes[i].offset
                          /\ stripes[i].offset < optOffset + optLength }

\* C1: with a batch of capacity >= 1 over a file without corrupt stripes,
\* file-scan's loop never dies in next, and when next has returned false the
\* rows it counted are the rows of all stripes of the selected range.
C1_ScanCountsAllRows ==
  (capacity >= 1 /\ badStripe = 0) =>
     /\ pc # "failed"
     /\ pc = "done" => rows = SelectedRows

\* C2: a call of next that returned true left 0 < numElements <= capacity,
\* and a call that returned false left numElements = 0.
C2_TrueIffRows ==
  /\ ret = "true" => (0 < numElements /\ numElements <= capacity)
  /\ ret = "false" => numElements = 0

\* a call returned true with a batch that is not full: the stripe ended
C2_Witness ==
  /\ ret = "true"
  /\ numElements < capacity
  /\ rows > numElements

\* C3: with capacity >= 1, next returns false only when every selected
\* stripe has delivered all its rows, and on a file without stripes or with
\* no stripe in the range it returns false and starts no stripe.
C3_FalseOnlyAtEnd ==
  capacity >= 1 =>
     /\ ret = "false" =>
          \A i \in Selected : rowsRead[i] = stripes[i].numberofrows
     /\ (NumStripes = 0 \/ InRange = {}) =>
          (started = {} /\ ret \in {"none", "false"})

\* C8: next delivers no row of a stripe whose offset is outside
\* [offset, offset + length), and once it has returned false at the end of
\* the range every stripe inside the interval was delivered completely.
C8_RangeIsOffsetInterval ==
  (capacity >= 1 /\ badStripe = 0 /\ NumStripes > 0) =>
     /\ \A i \in (1..NumStripes) \ OffsetInterval : rowsRead[i] = 0
     /\ (ret = "false" /\ currentStripe > lastStripe) =>
          \A i \in OffsetInterval : rowsRead[i] = stripes[i].numberofrows

\* C26: with range(offset > 0, length = the largest unsigned long) the upper
\* bound does not wrap: every stripe at a file offset >= offset is in range,
\* and once next has returned false at the end of the range all its rows
\* were read.
C26_RangeEndSaturates ==
  (optOffset > 0 /\ optLength = ULongMax) =>
     \A i \in 1..NumStripes :
        stripes[i].offset >= optOffset =>
          /\ IsStripeInRange(i)
          /\ (capacity >= 1 /\ badStripe = 0 /\ ret = "false"
                             /\ currentStripe > lastStripe) =>
               rowsRead[i] = stripes[i].numberofrows

\* C10: when next fails with an error, numElements is zero.
C10_ErrorLeavesNoRows == ret = "error" => numElements = 0

\* the stripe (1-based) the last batch came from: stripes are read in order
BatchStripe ==
  CHOOSE i \in 1..NumStripes :
    /\ rowsRead[i] > 0
    /\ \A j \in 1..NumStripes : rowsRead[j] > 0 => j <= i

\* the index, over the rows of all stripes of the file in order, of the first
\* row of the batch the last call of next returned; on a file without
\* stripes no stripe precedes the batch, and the rows before it are the rows
\* the earlier batches held
BatchFirstRow ==
  IF NumStripes = 0 THEN rows - numElements
  ELSE SumRows(stripes, BatchStripe - 1) + rowsRead[BatchStripe] - numElements

\* C14: after a call of next that returned true, getRowNumber() is the index
\* of the first row of the batch, counted from 0 over all stripes of the file.
C14_RowNumberIsFirstRowOfBatch ==
  (ret = "true" /\ (NumStripes = 0 => pc = "scan")) => previousRow = BatchFirstRow

\* C15: no call of next lowers previousRow, from the state the constructor
\* leaves on.
C15_RowNumberNeverMovesBack == [][previousRow' >= previousRow]_vars

C19_GetStripeChecksIndex ==
  stripeRet.result # "none" =>
     /\ stripeRet.index < NumStripes =>
          /\ stripeRet.result = "ok"
          /\ stripeRet.info = StripeInfo(stripes[stripeRet.index + 1].offset,
                                         stripes[stripeRet.index + 1].numberofrows)
     /\ stripeRet.index >= NumStripes =>
          stripeRet.result = "stripe index out of range"

\* ====================================================== RleDecoderV2
\* The decoder is a record d: its fields are the members of RleDecoderV2,
\* plus  in, pos  the input stream and the 1-based index of its next byte,
\*       data     the caller's buffer (0-based),
\*       val      the value the last operator returned,
\*       err      "none", or the message of the exception being thrown.
\* An operator applied to a decoder with err # "none" changes nothing: the
\* exception unwinds through it.  Values stay far below 2^63 in the streams
\* decoded here, so the 64-bit shifts and sums are the integer ones.

MIN_REPEAT == 3

\* value >> 1 ^ -(value & 1)
unZigZag(value) ==
  IF value % 2 = 0 THEN value \div 2 ELSE 0 - ((value + 1) \div 2)

decodeBitWidth(n) ==
  IF n >= 0 /\ n <= 23 THEN n + 1
  ELSE IF n = 24 THEN 26
  ELSE IF n = 25 THEN 28
  ELSE IF n = 26 THEN 30
  ELSE IF n = 27 THEN 32
  ELSE IF n = 28 THEN 40
  ELSE IF n = 29 THEN 48
  ELSE IF n = 30 THEN 56
  ELSE 64

\* a closest width that takes every number of bits as it is
getClosestFixedBitsAsIs(n) == IF n = 0 THEN 1 ELSE n

getClosestFixedBits(n) ==
  IF n = 0 THEN 1
  ELSE IF n >= 1 /\ n <= 24 THEN n
  ELSE IF n > 24 /\ n <= 26 THEN 26
  ELSE IF n > 26 /\ n <= 28 THEN 28
  ELSE IF n > 28 /\ n <= 30 THEN 30
  ELSE IF n > 30 /\ n <= 32 THEN 32
  ELSE IF n > 32 /\ n <= 40 THEN 40
  ELSE IF n > 40 /\ n <= 48 THEN 48
  ELSE IF n > 48 /\ n <= 56 THEN 56
  ELSE 64

\* the constructor
NewDecoder(input, signed) ==
  [in |-> input, pos |-> 1, isSigned |-> signed,
   firstByte |-> 0, runLength |-> 0, runRead |-> 0, deltaBase |-> 0,
   byteSize |-> 0, firstValue |-> 0, prevValue |-> 0, bitSize |-> 0,
   bitsLeft |-> 0, curByte |-> 0, patchBitSize |-> 0, base |-> 0,
   curGap |-> 0, curPatch |-> 0, patchMask |-> 0, actualGap |-> 0,
   unpacked |-> << >>, unpackedIdx |-> 0,
   unpackedPatch |-> << >>, patchIdx |-> 0,
   data |-> << >>, val |-> 0, err |-> "none"]

\* a function that has thrown leaves the decoder as it is: every step below
\* hands a failed decoder on unchanged
Failed(d) == d.err # "none"

\* a notNull argument: has = FALSE is the null pointer
NoMask == [has |-> FALSE, bits |-> << >>]

\* no slot is taken for null
IsNullAtNever(notNull, i) == FALSE

\* notNull && !notNull[i]
IsNullAt(notNull, i) == notNull.has /\ notNull.bits[i] = 0

\* return v
Return(d, v) == IF Failed(d) THEN d ELSE [d EXCEPT !.val = v]

readByte(d) ==
  IF Failed(d) THEN d
  ELSE IF d.pos > Len(d.in) THEN [d EXCEPT !.err = "bad read in readByte"]
  ELSE [d EXCEPT !.val = d.in[d.pos], !.pos = d.pos + 1]

\* readLongBE: n bytes are still to read, b is the decoder after readByte
RECURSIVE readLongBELoop(_, _, _), readLongBEByte(_, _, _)
readLongBELoop(d, n, acc) ==
  IF Failed(d) THEN d
  ELSE IF n = 0 THEN [d EXCEPT !.val = acc]
  ELSE readLongBEByte(readByte(d), n - 1, acc)

\* ret |= (val << (n * 8))
readLongBEByte(b, n, acc) == readLongBELoop(b, n, acc + b.val * Pow2(n * 8))

readLongBE(d, bsz) == readLongBELoop(d, bsz, 0)

\* readVulong: b is the decoder after readByte
RECURSIVE readVulongLoop(_, _, _), readVulongByte(_, _, _)
readVulongLoop(d, acc, offset) == readVulongByte(readByte(d), acc, offset)

\* ret |= (b & 0x7f) << offset, while (b >= 0x80)
readVulongByte(b, acc, offset) ==
  IF Failed(b) THEN b
  ELSE IF b.val >= 128
  THEN readVulongLoop(b, acc + (b.val % 128) * Pow2(offset), offset + 7)
  ELSE [b EXCEPT !.val = acc + (b.val % 128) * Pow2(offset)]

readVulong(d) == readVulongLoop(d, 0, 0)

\* unZigZag(readVulong()), r the decoder after readVulong
readVslongValue(r) == IF Failed(r) THEN r ELSE [r EXCEPT !.val = unZigZag(r.val)]

readVslong(d) == readVslongValue(readVulong(d))

\* readLongs, the body of the for loop: one value of fb bits
RECURSIVE readBits(_, _, _), readBitsByte(_, _, _)
readBits(d, bitsLeftToRead, result) ==
  IF Failed(d) THEN d
  ELSE IF bitsLeftToRead > d.bitsLeft
  THEN readBitsByte(readByte(d), bitsLeftToRead - d.bitsLeft,
                    result * Pow2(d.bitsLeft) + (d.curByte % Pow2(d.bitsLeft)))
  ELSE IF bitsLeftToRead > 0
  THEN [d EXCEPT !.bitsLeft = d.bitsLeft - bitsLeftToRead,
                 !.val = result * Pow2(bitsLeftToRead)
                         + ((d.curByte \div Pow2(d.bitsLeft - bitsLeftToRead))
                            % Pow2(bitsLeftToRead))]
  ELSE [d EXCEPT !.val = result]

\* curByte = readByte(); bitsLeft = 8
readBitsByte(b, bitsLeftToRead, result) ==
  IF Failed(b) THEN b
  ELSE readBits([b EXCEPT !.curByte = b.val, !.bitsLeft = 8],
                bitsLeftToRead, result)

\* data[i] = result, for the array dst of the decoder
StoreResult(r, dst, i) == IF Failed(r) THEN r ELSE [r EXCEPT ![dst][i] = r.val]

\* readLongs(dst, offset, len, fb, notNull), dst one of the arrays "data",
\* "unpacked", "unpackedPatch" of the decoder; val is the count it returns
RECURSIVE readLongsLoop(_, _, _, _, _, _, _)
readLongsLoop(d, dst, i, end, fb, notNull, acc) ==
  IF Failed(d) THEN d
  ELSE IF i >= end THEN [d EXCEPT !.val = acc]
  ELSE IF IsNullAt(notNull, i)
  THEN readLongsLoop(d, dst, i + 1, end, fb, notNull, acc)
  ELSE readLongsLoop(StoreResult(readBits(d, fb, 0), dst, i),
                     dst, i + 1, end, fb, notNull, acc + 1)

readLongs(d, dst, offset, len, fb, notNull) ==
  readLongsLoop(d, dst, offset, offset + len, fb, notNull, 0)

\* runRead += readLongs(...), r the decoder after readLongs
AddRunRead(r) ==
  IF Failed(r) THEN r ELSE [r EXCEPT !.runRead = r.runRead + r.val]

\* a | b on non-negative integers
RECURSIVE BitOr(_, _)
BitOr(a, b) ==
  IF a = 0 THEN b
  ELSE IF b = 0 THEN a
  ELSE (IF a % 2 = 1 \/ b % 2 = 1 THEN 1 ELSE 0)
       + 2 * BitOr(a \div 2, b \div 2)

\* runLength = (firstByte & 0x01) << 8 | readByte(), + 1; runRead = 0: the
\* run length of the DIRECT, PATCHED_BASE and DELTA headers, b the decoder
\* after the readByte of the second header byte
HeaderRunLength(b) ==
  IF Failed(b) THEN b
  ELSE [b EXCEPT !.runLength = (b.firstByte % 2) * 256 + b.val + 1,
                 !.runRead = 0]

\* std::min(runLength - runRead, numValues)
NRead(d, numValues) == Min(d.runLength - d.runRead, numValues)

\* ---- SHORT_REPEAT

RECURSIVE shortRepeatsLoop(_, _, _, _)
shortRepeatsLoop(d, pos, end, notNull) ==
  IF pos >= end THEN d
  ELSE IF IsNullAt(notNull, pos)
  THEN shortRepeatsLoop(d, pos + 1, end, notNull)
  ELSE shortRepeatsLoop([d EXCEPT !.data[pos] = d.firstValue,
                                  !.runRead = d.runRead + 1],
                        pos + 1, end, notNull)

\* firstValue = readLongBE(byteSize), unZigZag if signed; r the decoder
\* after readLongBE
shortRepeatsValue(r) ==
  IF Failed(r) THEN r
  ELSE [r EXCEPT !.firstValue = IF r.isSigned THEN unZigZag(r.val) ELSE r.val]

\* if (runRead == runLength) { ... }
shortRepeatsHeader(d) ==
  IF d.runRead # d.runLength THEN d
  ELSE shortRepeatsValue(
         readLongBE([d EXCEPT !.byteSize = ((d.firstByte \div 8) % 8) + 1,
                              !.runLength = (d.firstByte % 8) + MIN_REPEAT,
                              !.runRead = 0],
                    ((d.firstByte \div 8) % 8) + 1))

\* the rest of nextShortRepeats, h the decoder after the header
shortRepeatsCopy(h, offset, numValues, notNull) ==
  IF Failed(h) THEN h
  ELSE Return(shortRepeatsLoop(h, offset, offset + NRead(h, numValues), notNull),
              NRead(h, numValues))

nextShortRepeats(d, offset, numValues, notNull) ==
  shortRepeatsCopy(shortRepeatsHeader(d), offset, numValues, notNull)

\* ---- DIRECT

\* if (isSigned) data[pos] = unZigZag(data[pos]) for the slots not null
RECURSIVE unZigZagLoop(_, _, _, _)
unZigZagLoop(d, pos, end, notNull) ==
  IF Failed(d) \/ ~d.isSigned \/ pos >= end THEN d
  ELSE IF IsNullAt(notNull, pos)
  THEN unZigZagLoop(d, pos + 1, end, notNull)
  ELSE unZigZagLoop([d EXCEPT !.data[pos] = unZigZag(d.data[pos])],
                    pos + 1, end, notNull)

\* if (runRead == runLength) { ... }
directHeader(d) ==
  IF d.runRead # d.runLength THEN d
  ELSE HeaderRunLength(
         readByte([d EXCEPT !.bitSize = decodeBitWidth((d.firstByte \div 2) % 32),
                            !.bitsLeft = 0,
                            !.curByte = 0]))

\* the rest of nextDirect, h the decoder after the header
directValues(h, offset, numValues, notNull) ==
  IF Failed(h) THEN h
  ELSE Return(unZigZagLoop(
                AddRunRead(readLongs(h, "data", offset, NRead(h, numValues),
                                     h.bitSize, notNull)),
                offset, offset + NRead(h, numValues), notNull),
              NRead(h, numValues))

nextDirect(d, offset, numValues, notNull) ==
  directValues(directHeader(d), offset, numValues, notNull)

\* ---- PATCHED_BASE

\* adjustGapAndPatch: the gap and the patch of the current patch list entry;
\* an entry whose gap field is zero only adds to the gap, the next entry is
\* taken.  Reading past the patch list is undefined.
RECURSIVE adjustGapLoop(_)
adjustGapLoop(d) ==
  IF d.patchIdx >= Len(d.unpackedPatch)
  THEN [d EXCEPT !.err = "undefined"]
  ELSE LET e == d.unpackedPatch[d.patchIdx + 1]
           gap == e \div Pow2(d.patchBitSize)
           d1 == [d EXCEPT !.curGap = gap,
                           !.curPatch = e % (d.patchMask + 1),
                           !.actualGap = d.actualGap + gap]
       IN IF gap = 0 /\ d.patchIdx + 1 < Len(d.unpackedPatch)
          THEN adjustGapLoop([d1 EXCEPT !.patchIdx = d.patchIdx + 1])
          ELSE d1

adjustGapAndPatch(d) == adjustGapLoop([d EXCEPT !.actualGap = 0])

\* a vector of n zeros (resize), as a sequence: element i is at i + 1
Zeros(n) == [i \in 1..n |-> 0]

\* readLongs into a vector: the vector is 0-based in the code, so the loop
\* index i writes element i + 1 of the sequence
RECURSIVE readVectorLoop(_, _, _, _, _)
readVectorLoop(d, dst, i, end, fb) ==
  IF Failed(d) THEN d
  ELSE IF i >= end THEN d
  ELSE readVectorLoop(StoreResult(readBits(d, fb, 0), dst, i + 1),
                      dst, i + 1, end, fb)

\* the third header byte: base width and patch width; b the decoder after
\* its readByte
patchedThirdByte(b) ==
  IF Failed(b) THEN b
  ELSE [b EXCEPT !.byteSize = ((b.val \div 32) % 8) + 1,
                 !.patchBitSize = decodeBitWidth(b.val % 32)]

\* patchMask = (1L << patchBitSize) - 1; adjustGapAndPatch(); r the decoder
\* after the patch list is read
patchedFirstGap(r) ==
  IF Failed(r) THEN r
  ELSE adjustGapAndPatch([r EXCEPT !.bitsLeft = 0,
                                   !.patchMask = Pow2(r.patchBitSize) - 1])

\* the patch list of pl entries; r the decoder after the values are read
patchedPatchList(r, pgw, pl) ==
  IF Failed(r) THEN r
  ELSE IF r.patchBitSize + pgw > 64
  THEN [r EXCEPT !.bitsLeft = 0, !.unpackedPatch = Zeros(pl), !.patchIdx = 0,
                 !.err = "Corrupt PATCHED_BASE encoded data!"]
  ELSE patchedFirstGap(
         readVectorLoop([r EXCEPT !.bitsLeft = 0,
                                  !.unpackedPatch = Zeros(pl),
                                  !.patchIdx = 0],
                        "unpackedPatch", 0, pl,
                        getClosestFixedBits(r.patchBitSize + pgw)))

\* the base, sign in its top bit, and the runLength values; r the decoder
\* after readLongBE(byteSize)
patchedBase(r, pgw, pl) ==
  IF Failed(r) THEN r
  ELSE LET mask == Pow2(r.byteSize * 8 - 1)
       IN patchedPatchList(
            readVectorLoop([r EXCEPT !.base = IF (r.val \div mask) % 2 = 1
                                              THEN 0 - (r.val - mask)
                                              ELSE r.val,
                                     !.unpacked = Zeros(r.runLength),
                                     !.unpackedIdx = 0],
                           "unpacked", 0, r.runLength, r.bitSize),
            pgw, pl)

\* the fourth header byte: patch gap width and patch list length; b the
\* decoder after its readByte
patchedFourthByte(b) ==
  IF Failed(b) THEN b
  ELSE patchedBase(readLongBE(b, b.byteSize),
                   ((b.val \div 32) % 8) + 1, b.val % 32)

\* if (runRead == runLength) { ... }
patchedHeader(d) ==
  IF d.runRead # d.runLength THEN d
  ELSE patchedFourthByte(readByte(patchedThirdByte(readByte(HeaderRunLength(
         readByte([d EXCEPT !.bitSize =
                      decodeBitWidth((d.firstByte \div 2) % 32)]))))))

\* adjustGapAndPatch(); actualGap += unpackedIdx, if patches are left
patchedNextGap(d) ==
  IF d.patchIdx >= Len(d.unpackedPatch) THEN d
  ELSE LET a == adjustGapAndPatch(d)
       IN IF Failed(a) THEN a
          ELSE [a EXCEPT !.actualGap = a.actualGap + a.unpackedIdx]

\* ++runRead; ++unpackedIdx
patchedAdvance(d) ==
  IF Failed(d) THEN d
  ELSE [d EXCEPT !.runRead = d.runRead + 1, !.unpackedIdx = d.unpackedIdx + 1]

RECURSIVE patchedLoop(_, _, _, _)
patchedLoop(d, pos, end, notNull) ==
  IF Failed(d) \/ pos >= end THEN d
  ELSE IF IsNullAt(notNull, pos) THEN patchedLoop(d, pos + 1, end, notNull)
  ELSE IF d.unpackedIdx # d.actualGap
  THEN patchedLoop(
         patchedAdvance([d EXCEPT !.data[pos] =
                                     d.base + d.unpacked[d.unpackedIdx + 1]]),
         pos + 1, end, notNull)
  ELSE patchedLoop(
         patchedAdvance(patchedNextGap(
           [d EXCEPT !.data[pos] =
                        d.base + BitOr(d.unpacked[d.unpackedIdx + 1],
                                       d.curPatch * Pow2(d.bitSize)),
                     !.patchIdx = d.patchIdx + 1])),
         pos + 1, end, notNull)

\* the rest of nextPatched, h the decoder after the header
patchedValues(h, offset, numValues, notNull) ==
  IF Failed(h) THEN h
  ELSE Return(patchedLoop(h, offset, offset + NRead(h, numValues), notNull),
              NRead(h, numValues))

nextPatched(d, offset, numValues, notNull) ==
  patchedValues(patchedHeader(d), offset, numValues, notNull)

\* ---- DELTA

\* for ( ; pos < end; ++pos) if (!notNull || notNull[pos]) break;
RECURSIVE skipNulls(_, _, _)
skipNulls(pos, end, notNull) ==
  IF pos < end /\ IsNullAt(notNull, pos)
  THEN skipNulls(pos + 1, end, notNull) ELSE pos

\* bitSize is assigned only when the width field of the header is not zero
deltaBitSize(d, fbo) == IF fbo # 0 THEN decodeBitWidth(fbo) ELSE d.bitSize

\* runRead = deltaBase = 0 and the first value, a vint; b the decoder after
\* the run length is read
deltaFirstValue(b) ==
  IF Failed(b) THEN b
  ELSE IF b.isSigned THEN readVslong([b EXCEPT !.deltaBase = 0])
  ELSE readVulong([b EXCEPT !.deltaBase = 0])

\* prevValue = firstValue, and the delta base, a signed vint; r the decoder
\* after the first value is read
deltaDeltaBase(r) ==
  IF Failed(r) THEN r
  ELSE readVslong([r EXCEPT !.firstValue = r.val, !.prevValue = r.val])

\* deltaBase = readVslong(); r the decoder after that readVslong
deltaSetBase(r) == IF Failed(r) THEN r ELSE [r EXCEPT !.deltaBase = r.val]

\* if (runRead == runLength) { ... }
deltaHeader(d) ==
  IF d.runRead # d.runLength THEN d
  ELSE deltaSetBase(deltaDeltaBase(deltaFirstValue(HeaderRunLength(
         readByte([d EXCEPT !.bitSize =
                      deltaBitSize(d, (d.firstByte \div 2) % 32)])))))

\* bitSize == 0: add the fixed delta to adjacent values
RECURSIVE fixedDeltaLoop(_, _, _, _)
fixedDeltaLoop(d, pos, end, notNull) ==
  IF pos >= end THEN d
  ELSE IF IsNullAt(notNull, pos) THEN fixedDeltaLoop(d, pos + 1, end, notNull)
  ELSE fixedDeltaLoop([d EXCEPT !.data[pos] = d.prevValue + d.deltaBase,
                                !.prevValue = d.prevValue + d.deltaBase,
                                !.runRead = d.runRead + 1],
                      pos + 1, end, notNull)

\* the unpacked deltas are added to (deltaBase >= 0) or subtracted from
\* (deltaBase < 0) the previous value
RECURSIVE packedDeltaLoop(_, _, _, _)
packedDeltaLoop(d, pos, end, notNull) ==
  IF Failed(d) \/ pos >= end THEN d
  ELSE IF IsNullAt(notNull, pos) THEN packedDeltaLoop(d, pos + 1, end, notNull)
  ELSE LET v == IF d.deltaBase < 0 THEN d.prevValue - d.data[pos]
                ELSE d.prevValue + d.data[pos]
       IN packedDeltaLoop([d EXCEPT !.data[pos] = v, !.prevValue = v],
                          pos + 1, end, notNull)

\* bitSize != 0, from the slot pos on, pos the first slot not null: the
\* second value of the run is firstValue + deltaBase, the others are read
\* with readLongs
deltaPacked(d, pos, end, notNull) ==
  IF d.runRead < 2 /\ pos < end
  THEN packedDeltaLoop(
         AddRunRead(
           readLongs([d EXCEPT !.data[pos] = d.firstValue + d.deltaBase,
                               !.prevValue = d.firstValue + d.deltaBase,
                               !.runRead = d.runRead + 1],
                     "data", pos + 1, end - (pos + 1), d.bitSize, notNull)),
         pos + 1, end, notNull)
  ELSE packedDeltaLoop(
         AddRunRead(readLongs(d, "data", pos, end - pos, d.bitSize, notNull)),
         pos, end, notNull)

\* the values after the first one, from the slot pos on
deltaRest(d, pos, end, notNull) ==
  IF d.bitSize = 0 THEN fixedDeltaLoop(d, pos, end, notNull)
  ELSE deltaPacked(d, skipNulls(pos, end, notNull), end, notNull)

\* the first value of the run goes to the slot pos, the first slot not null
deltaFirst(d, pos, end, notNull) ==
  IF d.runRead = 0 /\ pos < end
  THEN deltaRest([d EXCEPT !.data[pos] = d.firstValue, !.runRead = 1],
                 pos + 1, end, notNull)
  ELSE deltaRest(d, pos, end, notNull)

\* the rest of nextDelta, h the decoder after the header
deltaValues(h, offset, numValues, notNull) ==
  IF Failed(h) THEN h
  ELSE Return(deltaFirst(h,
                         skipNulls(offset, offset + NRead(h, numValues), notNull),
                         offset + NRead(h, numValues), notNull),
              NRead(h, numValues))

nextDelta(d, offset, numValues, notNull) ==
  deltaValues(deltaHeader(d), offset, numValues, notNull)

\* ---- next

\* if (runRead == runLength) firstByte = readByte(); b the decoder after
\* readByte
nextFirstByte(b) == IF Failed(b) THEN b ELSE [b EXCEPT !.firstByte = b.val]

\* switch (static_cast<EncodingType>((firstByte >> 6) & 0x03))
nextRun(d, offset, length, notNull) ==
  IF Failed(d) THEN d
  ELSE IF (d.firstByte \div 64) % 4 = 0
  THEN nextShortRepeats(d, offset, length, notNull)
  ELSE IF (d.firstByte \div 64) % 4 = 1
  THEN nextDirect(d, offset, length, notNull)
  ELSE IF (d.firstByte \div 64) % 4 = 2
  THEN nextPatched(d, offset, length, notNull)
  ELSE nextDelta(d, offset, length, notNull)

\* while (nRead < numValues) { ... nRead += next...(data, offset, length,
\* notNull) }; r is the decoder after the run's function returned
RECURSIVE nextLoop(_, _, _, _), nextAdd(_, _, _, _)
nextLoop(d, nRead, numValues, notNull) ==
  IF Failed(d) THEN d
  ELSE IF nRead >= numValues THEN [d EXCEPT !.val = nRead]
  ELSE nextAdd(nextRun(IF d.runRead = d.runLength
                       THEN nextFirstByte(readByte(d)) ELSE d,
                       nRead, numValues - nRead, notNull),
               nRead, numValues, notNull)

nextAdd(r, nRead, numValues, notNull) ==
  IF Failed(r) THEN r ELSE nextLoop(r, nRead + r.val, numValues, notNull)

\* a next that drops what is left of the run it stands in and starts every
\* call with a run header
nextFromHeader(d, numValues, notNull) ==
  nextLoop([d EXCEPT !.runRead = d.runLength], 0, numValues, notNull)

\* next(data, numValues, notNull): d.data is the caller's buffer; val is
\* nRead when the loop ends
next(d, numValues, notNull) == nextLoop(d, 0, numValues, notNull)

\* ------------------------------------------- RLE v2 streams to decode
\* The encodings of the four kinds of run, as the format lays them out.
\* A run is a record [bytes, vals]: its bytes and the values it encodes.

zigZag(x) == IF x >= 0 THEN 2 * x ELSE 0 - 2 * x - 1

\* the code c of a bit width w: decodeBitWidth(c) = w
encodeBitWidth(w) == CHOOSE c \in 0..31 : decodeBitWidth(c) = w

\* w bits of v, most significant first
BitsOf(v, w) == [i \in 1..w |-> (v \div Pow2(w - i)) % 2]

RECURSIVE PackBits(_, _)
\* the values vs at w bits each, as one sequence of bits
PackBits(vs, w) ==
  IF vs = << >> THEN << >> ELSE BitsOf(Head(vs), w) \o PackBits(Tail(vs), w)

RECURSIVE BitsToBytes(_)
\* bits to bytes, the last byte padded with zero bits
BitsToBytes(bits) ==
  IF bits = << >> THEN << >>
  ELSE IF Len(bits) < 8 THEN BitsToBytes(bits \o <<0>>)
  ELSE << bits[1] * 128 + bits[2] * 64 + bits[3] * 32 + bits[4] * 16
          + bits[5] * 8 + bits[6] * 4 + bits[7] * 2 + bits[8] >>
       \o BitsToBytes(SubSeq(bits, 9, Len(bits)))

Packed(vs, w) == BitsToBytes(PackBits(vs, w))

RECURSIVE Varint(_)
\* base-128 varint, low group first
Varint(u) == IF u < 128 THEN <<u>> ELSE <<128 + (u % 128)>> \o Varint(u \div 128)

\* a value as stored in a stream: zig-zag in a signed stream
Stored(signed, v) == IF signed THEN zigZag(v) ELSE v

MapStored(signed, vs) == [i \in 1..Len(vs) |-> Stored(signed, vs[i])]

\* SHORT_REPEAT: n (3..10) copies of v, v stored in one byte
EncShortRepeat(signed, v, n) ==
  [bytes |-> << n - MIN_REPEAT, Stored(signed, v) >>,
   vals  |-> [i \in 1..n |-> v]]

\* DIRECT: vs at w bits each
EncDirect(signed, w, vs) ==
  [bytes |-> << 64 + 2 * encodeBitWidth(w), Len(vs) - 1 >>
             \o Packed(MapStored(signed, vs), w),
   vals  |-> vs]

\* DELTA with width 0: n values first, first + delta, first + 2 delta, ...
EncDeltaFixed(signed, first, delta, n) ==
  [bytes |-> << 192, n - 1 >> \o Varint(Stored(signed, first))
             \o Varint(zigZag(delta)),
   vals  |-> [i \in 1..n |-> first + (i - 1) * delta]]

RECURSIVE DeltaVals(_, _, _)
DeltaVals(prev, sign, ds) ==
  IF ds = << >> THEN << >>
  ELSE <<prev + sign * Head(ds)>> \o DeltaVals(prev + sign * Head(ds), sign, Tail(ds))

\* DELTA with width w: first, first + delta, then the deltas ds at w bits
EncDelta(signed, first, delta, w, ds) ==
  [bytes |-> << 192 + 2 * encodeBitWidth(w), Len(ds) + 1 >>
             \o Varint(Stored(signed, first)) \o Varint(zigZag(delta))
             \o Packed(ds, w),
   vals  |-> <<first, first + delta>>
             \o DeltaVals(first + delta, IF delta < 0 THEN 0 - 1 ELSE 1, ds)]

\* PATCHED_BASE: base b (one byte, sign and magnitude), the low bits of the
\* values at w bits, and one patch p of pw bits for the value at index gap
EncPatched(b, w, low, pw, gap, p) ==
  [bytes |-> << 128 + 2 * encodeBitWidth(w), Len(low) - 1,
                encodeBitWidth(pw), 1 >>
             \o << IF b < 0 THEN 128 - b ELSE b >>
             \o Packed(low, w)
             \o Packed(<< gap * Pow2(pw) + p >>, getClosestFixedBits(pw + 1)),
   vals  |-> [i \in 1..Len(low) |->
                b + low[i] + (IF i - 1 = gap THEN p * Pow2(w) ELSE 0)]]

\* the runs streams are built from: a signed stream (the DATA stream of an
\* integer column) holds 1..MaxRuns runs, an unsigned stream (lengths,
\* dictionary codes) one run
Corpus(signed) ==
  IF signed
  THEN { EncShortRepeat(TRUE, 0 - 2, 3),
         EncDirect(TRUE, 4, << 1, 0 - 2, 3 >>),
         EncDeltaFixed(TRUE, 2, 0 - 1, 3),
         EncDelta(TRUE, 0 - 1, 1, 2, << 2, 1 >>),
         EncPatched(1, 2, << 1, 2, 3 >>, 1, 1, 1) }
  ELSE { EncShortRepeat(FALSE, 5, 4),
         EncDirect(FALSE, 8, << 7, 9 >>),
         EncDelta(FALSE, 9, 0 - 1, 4, << 1, 3 >>) }

RunLists(signed) ==
  UNION { [1..n -> Corpus(signed)] : n \in 1..(IF signed THEN MaxRuns ELSE 1) }

RECURSIVE Concat(_, _)
\* the field f of the runs rs, concatenated
Concat(rs, f) == IF rs = << >> THEN << >> ELSE Head(rs)[f] \o Concat(Tail(rs), f)

\* the values the stream encodes
AllVals == Concat(runs, "vals")

\* ------------------------------------------- the caller of the decoder

\* the caller's buffer before a call for n slots: slots 0..n, slot i holding
\* a value no run encodes
Untouched(i) == 0 - (100 + i)
Buffer(n) == [i \in 0..n |-> Untouched(i)]

\* the masks of n slots
Masks(n) == { [has |-> TRUE, bits |-> b] : b \in [0..(n - 1) -> {0, 1}] }

\* the slots of a batch of n that the caller's mask marks as holding a value
NotNullSlots(m, n) == { i \in 0..(n - 1) : ~(m.has /\ m.bits[i] = 0) }

ReaderIdle ==
  /\ stripes = << >>
  /\ badStripe = 0
  /\ badKind = "none"
  /\ optOffset = 0
  /\ optLength = 0
  /\ currentStripe = 0
  /\ lastStripe = 0
  /\ currentRowInStripe = 0
  /\ rowsInCurrentStripe = 0
  /\ previousRow = 0
  /\ capacity = 0
  /\ numElements = 0
  /\ ret = "none"
  /\ started = {}
  /\ rowsRead = << >>
  /\ pc = "idle"
  /\ rows = 0
  /\ batches = 0
  /\ seekRet = NoSeek
  /\ stripeRet = NoStripe

InitRle ==
  /\ ExtraIdle
  /\ ReaderIdle
  /\ SelectIdle
  /\ MagicIdle
  /\ \E signed \in BOOLEAN :
       /\ runs \in RunLists(signed)
       /\ dec = NewDecoder(Concat(runs, "bytes"), signed)
  /\ lastN = 0
  /\ lastMask = NoMask
  /\ valuesBefore = 0
  /\ valuesRead = 0
  /\ calls = 0
  /\ allMasked = TRUE
  /\ allPlain = TRUE
  /\ location = << >>
  /\ rleRet = "none"

\* the decoder after next(data, n, m), data being a fresh buffer of the caller
DecoderAfterNext(n, m) == next([dec EXCEPT !.data = Buffer(n)], n, m)

\* a column reader calls next for n slots with the mask m, and d is the
\* decoder after the call.  A file holds one value for every slot that is not
\* null, so the reader never asks for more values than the stream encodes.
\* After an exception the decoder is not used.
CallNext(n, m, d) ==
  /\ rleRet # "error"
  /\ calls < MaxCalls
  /\ calls' = calls + 1
  /\ allMasked' = (allMasked /\ m.has)
  /\ allPlain' = (allPlain /\ ~m.has)
  /\ UNCHANGED location
  /\ valuesRead + Cardinality(NotNullSlots(m, n)) <= Len(AllVals)
  /\ dec' = d
  /\ rleRet' = IF Failed(d) THEN "error" ELSE "ok"
  /\ valuesRead' = IF Failed(d) THEN valuesRead
                   ELSE valuesRead + Cardinality(NotNullSlots(m, n))
  /\ lastN' = n
  /\ lastMask' = m
  /\ valuesBefore' = valuesRead
  /\ UNCHANGED <<runs, readerVars, selectVars, magicVars, extraVars>>

\* next(data, n, nullptr)
RleNextNoMask ==
  \E n \in 0..MaxPlainN : CallNext(n, NoMask, DecoderAfterNext(n, NoMask))

\* next(data, n, nullptr) for all the values left in the stream
RleNextRest ==
  CallNext(Len(AllVals) - valuesRead, NoMask,
           DecoderAfterNext(Len(AllVals) - valuesRead, NoMask))

\* next(data, n, notNull)
RleNextMasked ==
  \E n \in 1..MaxMaskedN : \E m \in Masks(n) :
     CallNext(n, m, DecoderAfterNext(n, m))

NextRle == RleNextNoMask \/ RleNextRest \/ RleNextMasked

SpecRle == InitRle /\ [][NextRle]_vars

\* ------------------------------------------------ properties of the decoder

\* the number of slots 0..i of the last call that are not null
Rank(i) == Cardinality({ j \in NotNullSlots(lastMask, lastN) : j <= i })

\* the value slot i of the last call is due: the values of the stream are
\* handed out in order to the slots that are not null
Expected(i) == AllVals[valuesBefore + Rank(i)]

\* the last call returned and left the due value in every slot not null
LastCallDecoded ==
  /\ rleRet = "ok"
  /\ \A i \in NotNullSlots(lastMask, lastN) : dec.data[i] = Expected(i)

\* C4: a signed decoder called with PRESENT masks, over a stream that holds
\* a value for every slot not null: every call returns, and the k-th slot
\* not null (over the calls) holds the k-th value of the stream.
C4_MaskedSlotsGetValuesInOrder ==
  (calls > 0 /\ dec.isSigned /\ allMasked) => LastCallDecoded

\* C5: a fresh signed decoder asked for all the values xs of its stream in
\* one call without a mask returns, and leaves dst = xs.
C5_DecodeIsInverseOfEncode ==
  (calls = 1 /\ dec.isSigned /\ ~lastMask.has /\ lastN = Len(AllVals)) =>
     LastCallDecoded

\* C6: a call next(dst, n, notNull) leaves every null slot and every slot at
\* an index >= n as it was, and when it returns it has advanced over exactly
\* n slots and written every slot that is not null.
C6_WritesOnlyNotNullSlots ==
  calls > 0 =>
     /\ \A i \in 0..lastN :
          (i \notin NotNullSlots(lastMask, lastN)) => dec.data[i] = Untouched(i)
     /\ rleRet = "ok" =>
          /\ dec.val = lastN
          /\ \A i \in NotNullSlots(lastMask, lastN) : dec.data[i] # Untouched(i)

\* the run being decoded is a DELTA run whose width field (b >> 1) & 0x1f is 0
FixedDeltaRun ==
  /\ (dec.firstByte \div 64) % 4 = 3
  /\ (dec.firstByte \div 2) % 32 = 0

\* the slots of the last call, made without a mask, that took their values
\* from the run being decoded: the last runRead slots
SlotsOfRun ==
  { i \in 0..(lastN - 1) : i >= lastN - dec.runRead }

\* C20: a DELTA run whose width field is 0 is decoded with bit width 0 into
\* firstValue, firstValue + deltaBase, firstValue + 2 * deltaBase, ...,
\* whatever runs the decoder decoded before.
C20_FixedDeltaIsProgression ==
  (calls > 0 /\ ~lastMask.has /\ lastN > 0 /\ FixedDeltaRun) =>
     /\ rleRet = "ok"
     /\ dec.bitSize = 0
     /\ \A i \in SlotsOfRun :
          dec.data[i] = dec.firstValue
                        + (dec.runRead - (lastN - i)) * dec.deltaBase

\* the call being made passes a mask whose slots are all null
AllNullCall ==
  /\ calls' = calls + 1
  /\ lastMask'.has
  /\ NotNullSlots(lastMask', lastN') = {}

\* the call being made passes a mask whose last slot is null
TrailingNullCall ==
  /\ calls' = calls + 1
  /\ lastMask'.has
  /\ lastMask'.bits[lastN' - 1] = 0

\* C21: a call of next whose slots are all null returns and reads nothing
\* from the stream, and a call whose last slots are null returns, wherever
\* the decoder stands in its stream.
C21_NullSlotsReadNothing ==
  [][/\ AllNullCall => (rleRet' = "ok" /\ dec'.pos = dec.pos)
     /\ TrailingNullCall => rleRet' = "ok"]_vars

RECURSIVE RunOfValue(_, _)
\* the index in rs of the run that holds the k-th value of the stream
RunOfValue(rs, k) ==
  IF Len(rs) <= 1 \/ k <= Len(Head(rs).vals) THEN 1
  ELSE 1 + RunOfValue(Tail(rs), k - Len(Head(rs).vals))

\* the run being decoded was started by the last call, made without a mask
RunStartedInCall ==
  /\ calls > 0
  /\ rleRet = "ok"
  /\ ~lastMask.has
  /\ dec.runRead > 0
  /\ dec.runRead <= lastN

\* the values of the run being decoded, read by a decoder that starts on the
\* first byte of the run with an empty bit cursor and the same bit width
RunAlone ==
  next([NewDecoder(runs[RunOfValue(runs, valuesRead)].bytes, dec.isSigned)
          EXCEPT !.bitSize = dec.bitSize, !.data = Buffer(dec.runRead)],
       dec.runRead, NoMask)

\* C22: the values of a run with bit-packed values that the decoder has
\* started are the ones its own bytes hold, read from the first bit of the
\* byte after the header: no bit left over from the run before is part of
\* them.
C22_RunStartsOnAByte ==
  (RunStartedInCall /\ ~FixedDeltaRun) =>
    LET r == RunAlone
    IN \A i \in SlotsOfRun : dec.data[i] = r.data[i - (lastN - dec.runRead)]

\* one call of next for n values, without a mask, on a decoder made anew
\* over the same stream
OneCall(n) ==
  next([NewDecoder(Concat(runs, "bytes"), dec.isSigned)
          EXCEPT !.data = Buffer(n)], n, NoMask)

\* C23: the values a call of next without a mask writes, after calls
\* without a mask, are the ones a single call on a fresh decoder writes at
\* the same positions of the stream: the values of the first call are the
\* first values of every longer call, and the values of a later call are the
\* last values of the call for all the values read so far.
C23_SplitReadsTheSameValues ==
  (calls > 0 /\ rleRet = "ok" /\ allPlain) =>
    /\ LET whole == OneCall(valuesRead)
       IN \A i \in 0..(lastN - 1) :
            dec.data[i] = whole.data[valuesBefore + i]
    /\ \A b \in 1..MaxPlainN :
         (calls = 1 /\ lastN + b <= Len(AllVals)) =>
            LET longer == OneCall(lastN + b)
            IN \A i \in 0..(lastN - 1) : dec.data[i] = longer.data[i]

\* the second of two calls without a mask has returned; the first call
\* stopped after the first value of a PATCHED_BASE run, before its patched
\* value, and the second call went on into the run that follows
C23_Witness ==
  /\ calls = 2
  /\ rleRet = "ok"
  /\ allPlain
  /\ valuesBefore = 1
  /\ (runs[1].bytes[1] \div 64) % 4 = 2
  /\ Len(runs) = 2
  /\ valuesRead > Len(runs[1].vals)

\* a call with a mask that has a null slot before a slot that is not null
\* returned, in the middle of a DELTA run
C6_Witness ==
  /\ rleRet = "ok"
  /\ lastMask.has
  /\ lastN = 2
  /\ lastMask.bits[0] = 0
  /\ lastMask.bits[1] = 1
  /\ (dec.firstByte \div 64) % 4 = 3
  /\ dec.runRead = 2

\* ------------------------------------------------------ column selection

\* the column ids 0..n-1 of a schema of n types are assigned in pre-order
\* (Type::assignIds): the parent of column i is column i-1 or one of its
\* ancestors.  parentOf[i] is the parent of column i, for i in 1..n-1.
RECURSIVE AncestorsOrSelf(_, _)
AncestorsOrSelf(parentOf, i) ==
  IF i = 0 THEN {0} ELSE {i} \cup AncestorsOrSelf(parentOf, parentOf[i])

PreOrderTrees(n) ==
  { parentOf \in [1..(n - 1) -> 0..(n - 2)] :
      \A i \in 1..(n - 1) :
         /\ parentOf[i] < i
         /\ i > 1 => parentOf[i] \in AncestorsOrSelf(parentOf, i - 1) }

RECURSIVE Ascending(_)
Ascending(S) ==
  IF S = {} THEN << >>
  ELSE LET m == CHOOSE x \in S : \A y \in S : x <= y
       IN <<m>> \o Ascending(S \ {m})

\* footer.types of the tree parentOf: the subtypes list of every type
TypesOf(parentOf, n) ==
  [k \in 0..(n - 1) |-> Ascending({ i \in 1..(n - 1) : parentOf[i] = k })]

Schemas ==
  UNION { { TypesOf(parentOf, n) : parentOf \in PreOrderTrees(n) } :
          n \in 1..MaxTypes }

\* footer.types_size()
NumTypes == Cardinality(DOMAIN types)

\* the include lists a caller passes: column ids of the schema, and the
\* first id past its last column
IncludeLists(n) == UNION { [1..len -> 0..n] : len \in 0..MaxInclude }

NoneSelected == [k \in DOMAIN types |-> FALSE]

\* void ReaderImpl::selectTypeParent(size_t columnId), on the vector sel
RECURSIVE selectTypeParent(_, _), selectTypeParentLoop(_, _, _)
selectTypeParentLoop(sel, columnId, parent) ==
  IF parent >= columnId THEN sel
  ELSE IF /\ \E idx \in 1..Len(types[parent]) : types[parent][idx] = columnId
          /\ ~sel[parent]
       THEN selectTypeParent([sel EXCEPT ![parent] = TRUE], parent)
       ELSE selectTypeParentLoop(sel, columnId, parent + 1)

selectTypeParent(sel, columnId) == selectTypeParentLoop(sel, columnId, 0)

\* void ReaderImpl::selectTypeChildren(size_t columnId), on the vector sel
RECURSIVE selectTypeChildren(_, _), selectTypeChildrenLoop(_, _, _)
selectTypeChildrenLoop(sel, columnId, idx) ==
  IF idx > Len(types[columnId]) THEN sel
  ELSE selectTypeChildrenLoop(selectTypeChildren(sel, types[columnId][idx]),
                              columnId, idx + 1)

selectTypeChildren(sel, columnId) ==
  IF sel[columnId] THEN sel
  ELSE selectTypeChildrenLoop([sel EXCEPT ![columnId] = TRUE], columnId, 1)

\* the guard of the constructor's loop: schema->getSubtypeCount() is the
\* number of subtypes of the root type
IncludeGuard(columnId) == columnId <= Len(types[0])

\* the constructor's loop over the include list list, from position pos on
RECURSIVE includeLoopOver(_, _, _)
includeLoopOver(list, sel, pos) ==
  IF pos > Len(list) THEN sel
  ELSE IF IncludeGuard(list[pos])
       THEN includeLoopOver(list,
                            selectTypeChildren(
                               selectTypeParent(sel, list[pos]), list[pos]),
                            pos + 1)
       ELSE includeLoopOver(list, sel, pos + 1)

\* the constructor's loop over options.getInclude(), from position pos on
includeLoop(sel, pos) == includeLoopOver(included, sel, pos)

InitSelect ==
  /\ ExtraIdle
  /\ ReaderIdle
  /\ RleIdle
  /\ MagicIdle
  /\ types \in Schemas
  /\ included \in IncludeLists(NumTypes)
  /\ selectedColumns = NoneSelected
  /\ selectDone = FALSE

\* ReaderImpl::ReaderImpl: selectedColumns.assign(types_size, false) and the
\* loop over the include list
OpenSelectsColumns ==
  /\ ~selectDone
  /\ selectedColumns' = includeLoop(NoneSelected, 1)
  /\ selectDone' = TRUE
  /\ UNCHANGED <<types, included, readerVars, rleVars, magicVars, extraVars>>

NextSelect == OpenSelectsColumns

SpecSelect == InitSelect /\ [][NextSelect]_vars

\* ------------------------------------------- properties of the selection

\* the columns below column c in the schema, c not included
RECURSIVE Descendants(_)
Descendants(c) ==
  LET children == { types[c][idx] : idx \in 1..Len(types[c]) }
  IN children \cup UNION { Descendants(k) : k \in children }

\* the columns on the path from column c to the root, c not included
Ancestors(c) == { a \in DOMAIN types : c \in Descendants(a) }

\* C7: after a reader is opened with an include list, every id of the list
\* that is a column of the schema is selected, and so is every ancestor and
\* every descendant of it.
C7_IncludeSelectsClosure ==
  selectDone =>
     \A pos \in 1..Len(included) :
        included[pos] < NumTypes =>
           \A k \in {included[pos]} \cup Ancestors(included[pos])
                    \cup Descendants(included[pos]) : selectedColumns[k]

\* the ids an include list names
IdsOf(list) == { list[pos] : pos \in 1..Len(list) }

\* C28: the selection depends only on the set of ids of the include list:
\* a list with the same ids in another order, or with ids repeated, selects
\* the same columns.
C28_SelectionIgnoresOrder ==
  selectDone =>
     \A other \in IncludeLists(NumTypes) :
        IdsOf(other) = IdsOf(included) =>
           includeLoopOver(other, NoneSelected, 1) = selectedColumns

\* --------------------------------------------------------- magic check

\* const std::string MAGIC("ORC")
MAGIC == <<79, 82, 67>>

DIRECTORY_SIZE_GUESS == 16 * 1024

\* the bytes a file is made of, its last byte apart
FileAlphabet == {67, 79, 82}

\* fileBytes is a file of n bytes: any bytes, and a last byte
IsFile(n) ==
  IF n = 0 THEN fileBytes = << >>
  ELSE \E body \in [1..(n - 1) -> FileAlphabet] :
          \E last \in 0..MaxPostscriptLength : fileBytes = body \o <<last>>

\* setTailLocation: the default, or a location inside the longest file
TailLocations == {ULongMax, MaxFileLen - 1}

\* unsigned long size = std::min(options.getTailLocation(), stream->getLength())
size == Min(tailLocation, Len(fileBytes))

\* unsigned long readSize = std::min(size, DIRECTORY_SIZE_GUESS)
readSize == Min(size, DIRECTORY_SIZE_GUESS)

\* buffer[i] after stream->read(buffer.data(), size - readSize, readSize)
buffer(i) == fileBytes[size - readSize + i + 1]

\* postscriptLength = buffer[readSize - 1] & 0xff
LastByte == buffer(readSize - 1) % 256

\* memcmp(buffer+readSize-1-postscriptLength, MAGIC.c_str(), MAGIC.length()) == 0
TailMemcmp(psLen) ==
  \A i \in 0..(Len(MAGIC) - 1) : buffer(readSize - 1 - psLen + i) = MAGIC[i + 1]

\* the memcmp above reads inside the buffer
TailMemcmpInBuffer(psLen) == readSize >= 1 + psLen

\* stream->read(frontBuffer.data(), 0, MAGIC.length()) and its memcmp == 0
FrontMemcmp ==
  /\ Len(fileBytes) >= Len(MAGIC)
  /\ \A i \in 1..Len(MAGIC) : fileBytes[i] = MAGIC[i]

ParseErrors == {"ParseError: File size too small",
                "ParseError: Invalid postscript length",
                "ParseError: Not an ORC file"}

InitMagic ==
  /\ ExtraIdle
  /\ ReaderIdle
  /\ RleIdle
  /\ SelectIdle
  /\ \E n \in 0..MaxFileLen : IsFile(n)
  /\ tailLocation \in TailLocations
  /\ postscriptLength = 0
  /\ frontRead = FALSE
  /\ openResult = "new"

otherThanMagic ==
  <<fileBytes, tailLocation, readerVars, rleVars, selectVars, extraVars>>

\* ReaderImpl::ReaderImpl: if (readSize < 1) throw ParseError("File size too small")
OpenFileTooSmall ==
  /\ openResult = "new"
  /\ readSize < 1
  /\ openResult' = "ParseError: File size too small"
  /\ UNCHANGED <<postscriptLength, frontRead, otherThanMagic>>

\* ensureOrcFooter: if (postscriptLength < len + 1) throw
OpenInvalidPostscriptLength ==
  /\ openResult = "new"
  /\ readSize >= 1
  /\ postscriptLength' = LastByte
  /\ LastByte < Len(MAGIC) + 1
  /\ openResult' = "ParseError: Invalid postscript length"
  /\ UNCHANGED <<frontRead, otherThanMagic>>

\* ensureOrcFooter: the magic is where the first memcmp looks
OpenMagicAtTail ==
  /\ openResult = "new"
  /\ readSize >= 1
  /\ postscriptLength' = LastByte
  /\ LastByte >= Len(MAGIC) + 1
  /\ TailMemcmpInBuffer(LastByte)
  /\ TailMemcmp(LastByte)
  /\ openResult' = "magic ok"
  /\ UNCHANGED <<frontRead, otherThanMagic>>

\* ensureOrcFooter: the first memcmp differs, the first bytes of the file
\* are read and are the magic
OpenMagicAtFront ==
  /\ openResult = "new"
  /\ readSize >= 1
  /\ postscriptLength' = LastByte
  /\ LastByte >= Len(MAGIC) + 1
  /\ TailMemcmpInBuffer(LastByte)
  /\ ~TailMemcmp(LastByte)
  /\ frontRead' = TRUE
  /\ FrontMemcmp
  /\ openResult' = "magic ok"
  /\ UNCHANGED otherThanMagic

\* ensureOrcFooter: the first memcmp differs, the first bytes of the file
\* are read and are not the magic
OpenNotAnOrcFile ==
  /\ openResult = "new"
  /\ readSize >= 1
  /\ postscriptLength' = LastByte
  /\ LastByte >= Len(MAGIC) + 1
  /\ TailMemcmpInBuffer(LastByte)
  /\ ~TailMemcmp(LastByte)
  /\ frontRead' = TRUE
  /\ ~FrontMemcmp
  /\ openResult' = "ParseError: Not an ORC file"
  /\ UNCHANGED otherThanMagic

\* ensureOrcFooter: buffer+readSize-1-postscriptLength is before the start
\* of the buffer and the first memcmp reads outside it.  The process dies, or
\* the memcmp returns one of its two results and the function goes on.
OpenUndefined ==
  /\ openResult = "new"
  /\ readSize >= 1
  /\ postscriptLength' = LastByte
  /\ LastByte >= Len(MAGIC) + 1
  /\ ~TailMemcmpInBuffer(LastByte)
  /\ \/ /\ openResult' = "crash"
        /\ UNCHANGED frontRead
     \/ /\ openResult' = "magic ok"
        /\ UNCHANGED frontRead
     \/ /\ frontRead' = TRUE
        /\ openResult' = IF FrontMemcmp THEN "magic ok"
                         ELSE "ParseError: Not an ORC file"
  /\ UNCHANGED otherThanMagic

NextMagic ==
  \/ OpenFileTooSmall
  \/ OpenInvalidPostscriptLength
  \/ OpenMagicAtTail
  \/ OpenMagicAtFront
  \/ OpenNotAnOrcFile
  \/ OpenUndefined

SpecMagic == InitMagic /\ [][NextMagic]_vars

\* ----------------------------------------- properties of the magic check

\* the length of the file the reader is given
FileLen == size

\* "ORC" at [from, from + 3), offsets counted from 0
MagicAt(from) ==
  /\ from >= 0
  /\ from + Len(MAGIC) <= FileLen
  /\ \A i \in 1..Len(MAGIC) : fileBytes[from + i] = MAGIC[i]

\* the magic immediately before the postscript of length L = the last byte
MagicBeforePostscript ==
  FileLen >= 1 /\ MagicAt(FileLen - 1 - fileBytes[FileLen] - Len(MAGIC))

\* the postscript the last byte declares, and the last byte, fit in the file
PostscriptInFile == FileLen >= 1 /\ fileBytes[FileLen] + 1 <= FileLen

\* C9: a file whose postscript lies inside it passes the magic check if and only if "ORC" is immediately
\* before the postscript or at the start of the file, a file that does not
\* pass is refused with a ParseError, and the start of the file is read only
\* when the magic is not before the postscript.
C9_MagicBeforePostscriptOrAtStart ==
  (openResult \notin {"idle", "new"} /\ PostscriptInFile) =>
     /\ openResult = "magic ok" <=> (MagicBeforePostscript \/ MagicAt(0))
     /\ openResult # "magic ok" => openResult \in ParseErrors
     /\ frontRead => ~MagicBeforePostscript

\* C29: the open never reads the tail buffer outside [0, readSize): the
\* magic is compared at readSize - 1 - L only when that is inside the
\* buffer, and a postscript length L with L + 1 > readSize ends the open
\* with a ParseError.
C29_TailBufferAccessInBounds ==
  (openResult \notin {"idle", "new"} /\ readSize >= 1) =>
     /\ postscriptLength >= Len(MAGIC) + 1 =>
          TailMemcmpInBuffer(postscriptLength)
     /\ postscriptLength + 1 > readSize => openResult \in ParseErrors

\* ====================================================== file statistics
\* footer.statistics holds one ColumnStatistics message per type of
\* footer.types; the message of column c is written c here.

PrimitiveKinds ==
  {"BOOLEAN", "INT", "DOUBLE", "STRING", "BINARY", "TIMESTAMP", "DECIMAL",
   "DATE"}

\* the kinds a type with the subtypes list subtypes can have
KindsFor(subtypes) ==
  IF Len(subtypes) = 0 THEN PrimitiveKinds
  ELSE IF Len(subtypes) = 1 THEN {"STRUCT", "LIST"}
  ELSE IF Len(subtypes) = 2 THEN {"STRUCT", "MAP"}
  ELSE {"STRUCT", "UNION"}

\* the kinds of the types of the schema t: the root is a struct
KindsOf(t) ==
  { k \in [DOMAIN t -> PrimitiveKinds \cup {"STRUCT", "LIST", "MAP", "UNION"}] :
      /\ k[0] = "STRUCT"
      /\ \A c \in DOMAIN t : k[c] \in KindsFor(t[c]) }

StatSchemas ==
  UNION { { TypesOf(parentOf, n) : parentOf \in PreOrderTrees(n) } :
          n \in 1..MaxStatTypes }

\* convertColumnStatistics(type, s): the class of the view over the message s
convertColumnStatistics(kind, s) ==
  IF kind \in {"BYTE", "SHORT", "INT", "LONG"}
  THEN [view |-> "IntegerColumnStatistics", message |-> s]
  ELSE IF kind \in {"STRING", "CHAR", "VARCHAR"}
  THEN [view |-> "StringColumnStatistics", message |-> s]
  ELSE IF kind \in {"FLOAT", "DOUBLE"}
  THEN [view |-> "DoubleColumnStatistics", message |-> s]
  ELSE IF kind = "DATE"
  THEN [view |-> "DateColumnStatistics", message |-> s]
  ELSE IF kind = "TIMESTAMP"
  THEN [view |-> "TimestampColumnStatistics", message |-> s]
  ELSE IF kind = "BINARY"
  THEN [view |-> "BinaryColumnStatistics", message |-> s]
  ELSE IF kind = "DECIMAL"
  THEN [view |-> "DecimalColumnStatistics", message |-> s]
  ELSE IF kind = "BOOLEAN"
  THEN [view |-> "BooleanColumnStatistics", message |-> s]
  ELSE [view |-> "ColumnStatistics", message |-> s]

\* schema->getSubtype(colIdx): the id of subtype colIdx of the root type
getSubtype(colIdx) == types[0][colIdx + 1]

\* the loop of getStatistics from colIdx on, result the list so far
RECURSIVE getStatisticsLoop(_, _)
getStatisticsLoop(colIdx, result) ==
  IF colIdx >= Len(types[0]) THEN result
  ELSE getStatisticsLoop(
         colIdx + 1,
         Append(result,
                convertColumnStatistics(kinds[getSubtype(colIdx)], colIdx + 1)))

InitStats ==
  /\ ReaderIdle
  /\ RleIdle
  /\ MagicIdle
  /\ PoisonIdle
  /\ BuildIdle
  /\ ColIdle
  /\ MoreIdle
  /\ types \in StatSchemas
  /\ included = << >>
  /\ selectedColumns = << >>
  /\ selectDone = FALSE
  /\ kinds \in KindsOf(types)
  /\ statsRet = NoStatistics

\* std::list<ColumnStatistics*> ReaderImpl::getStatistics() const
GetStatistics ==
  /\ ~statsRet.called
  /\ statsRet' = [called |-> TRUE, list |-> getStatisticsLoop(0, << >>)]
  /\ UNCHANGED <<kinds, readerVars, rleVars, selectVars, magicVars, poisonVars,
                 buildVars, colVars, moreVars>>

NextStats == GetStatistics

SpecStats == InitStats /\ [][NextStats]_vars

\* C18: getStatistics returns one entry per column id of the schema, nested
\* columns included, and the entry of column c is the view for the kind of
\* column c over the statistics message of column c.
C18_StatisticsPerColumn ==
  statsRet.called =>
     /\ Len(statsRet.list) = NumTypes
     /\ \A c \in DOMAIN types :
          statsRet.list[c + 1] = convertColumnStatistics(kinds[c], c)

\* ====================================================== buildReader
\* The reader factory, as the specification describes it: a reader per kind
\* for the integer, string and struct kinds, NotImplementedYet for the kinds
\* without a reader.  BYTE and BINARY are left out: the specification names
\* no reader for them and does not list them as unsupported.

IntegerKinds == {"SHORT", "INT", "LONG"}

StringKinds == {"STRING", "VARCHAR", "CHAR"}

\* no kind is without a reader
UnsupportedKindsNone == {}

\* the kinds the factory has no reader for
UnsupportedKinds ==
  {"FLOAT", "DOUBLE", "BOOLEAN", "TIMESTAMP", "LIST", "MAP", "UNION",
   "DECIMAL", "DATE"}

\* the reader the factory makes for a column of a kind that has one
ReaderFor(kind) ==
  IF kind \in IntegerKinds THEN "LongColumnReader"
  ELSE IF kind \in StringKinds
  THEN (IF encoding = "DICTIONARY" THEN "StringDictionaryColumnReader"
        ELSE "StringDirectColumnReader")
  ELSE "StructColumnReader"

\* buildReader(type, stripe) for the column c: a struct reader builds the
\* readers of its selected fields, in order, and their exception is its own
RECURSIVE buildReader(_), buildChildren(_, _)
buildReader(c) ==
  IF kinds[c] \in UnsupportedKinds THEN "NotImplementedYet"
  ELSE IF kinds[c] = "STRUCT" /\ buildChildren(c, 1) = "NotImplementedYet"
  THEN "NotImplementedYet"
  ELSE ReaderFor(kinds[c])

\* the readers of the fields of the struct c from the field idx on
buildChildren(c, idx) ==
  IF idx > Len(types[c]) THEN "built"
  ELSE IF /\ selectedColumns[types[c][idx]]
          /\ buildReader(types[c][idx]) = "NotImplementedYet"
  THEN "NotImplementedYet"
  ELSE buildChildren(c, idx + 1)

BuildSchemas ==
  UNION { { TypesOf(parentOf, n) : parentOf \in PreOrderTrees(n) } :
          n \in 1..MaxBuildTypes }

\* the kinds of the types of the schema t: the root is a struct, a type with
\* subtypes is a struct
BuildKindsOf(t) ==
  { k \in [DOMAIN t -> IntegerKinds \cup StringKinds \cup {"STRUCT"}
                        \cup {"FLOAT", "DOUBLE", "BOOLEAN", "TIMESTAMP",
                              "LIST", "MAP", "UNION", "DECIMAL", "DATE"}] :
      /\ k[0] = "STRUCT"
      /\ \A c \in DOMAIN t : Len(t[c]) > 0 => k[c] = "STRUCT" }

\* the selections of columns of the schema t: the root is selected, and a
\* selected column has its parent selected
SelectionsOf(t) ==
  { sel \in [DOMAIN t -> BOOLEAN] :
      /\ sel[0]
      /\ \A c \in DOMAIN t : \A idx \in 1..Len(t[c]) : sel[t[c][idx]] => sel[c] }

InitBuild ==
  /\ ReaderIdle
  /\ RleIdle
  /\ MagicIdle
  /\ PoisonIdle
  /\ types \in BuildSchemas
  /\ included = << >>
  /\ selectedColumns \in SelectionsOf(types)
  /\ selectDone = TRUE
  /\ kinds \in BuildKindsOf(types)
  /\ statsRet = NoStatistics
  /\ encoding \in {"DIRECT", "DICTIONARY"}
  /\ buildRet = NoReader
  /\ ColIdle
  /\ MoreIdle

\* reader = buildReader(*schema, stripeStreams) in startNextStripe
BuildReader ==
  /\ ~buildRet.called
  /\ buildRet' = [called |-> TRUE, result |-> buildReader(0)]
  /\ UNCHANGED <<encoding, readerVars, rleVars, selectVars, magicVars,
                 poisonVars, statVars, colVars, moreVars>>

NextBuild == BuildReader

SpecBuild == InitBuild /\ [][NextBuild]_vars

\* the kinds the factory is to reject
RejectedKinds ==
  {"FLOAT", "DOUBLE", "BOOLEAN", "TIMESTAMP", "LIST", "MAP", "UNION",
   "DECIMAL", "DATE"}

\* the selected fields of the root struct whose kind is to be rejected
RejectedFields ==
  { idx \in 1..Len(types[0]) :
      selectedColumns[types[0][idx]] /\ kinds[types[0][idx]] \in RejectedKinds }

\* C17: building the reader of a root struct that has a selected field of
\* kind FLOAT, DOUBLE, BOOLEAN, TIMESTAMP, LIST, MAP, UNION, DECIMAL or DATE
\* throws NotImplementedYet.
C17_UnsupportedKindsAreRejected ==
  (buildRet.called /\ RejectedFields # {}) =>
     buildRet.result = "NotImplementedYet"

\* the reader was built for a root struct whose first field is a selected
\* integer column and whose second field is a selected DATE column
C17_Witness ==
  /\ buildRet.called
  /\ buildRet.result = "NotImplementedYet"
  /\ Len(types[0]) = 2
  /\ kinds[types[0][1]] = "INT"
  /\ kinds[types[0][2]] = "DATE"
  /\ RejectedFields = {2}

\* ====================================================== a corrupt stripe
\* ReaderImpl::next over a file of one stripe whose schema is struct<long>;
\* the DATA stream of the long column is RLE v2 and may be corrupt.  The
\* column readers are built by startNextStripe and read by next; a
\* LongColumnReader without PRESENT stream hands the call to its decoder.

\* a PATCHED_BASE run of two values whose patch width (64) and patch gap
\* width (1) add up to more than 64 bits
CorruptPatched ==
  [bytes |-> << 128, 1, 31, 0, 5, 128 >>, vals |-> << 6, 5 >>]

\* a DIRECT run of three values of 8 bits, its last byte missing
TruncatedDirect ==
  [bytes |-> << 64 + 2 * encodeBitWidth(8), 2, 2, 4 >>, vals |-> << 1, 2, 3 >>]

\* the DATA streams of the stripe: intact, corrupt from the first run on,
\* and corrupt after an intact run
PoisonStreams ==
  { << EncPatched(1, 2, << 1, 2, 3 >>, 1, 1, 1) >>,
    << EncDirect(TRUE, 4, << 1, 0 - 2, 3 >>) >>,
    << CorruptPatched >>,
    << TruncatedDirect >>,
    << EncPatched(1, 2, << 1, 2, 3 >>, 1, 1, 1), CorruptPatched >>,
    << EncDirect(TRUE, 4, << 1, 0 - 2, 3 >>), TruncatedDirect >>,
    << EncDirect(TRUE, 4, << 1, 0 - 2, 3 >>),
       EncPatched(1, 2, << 1, 2, 3 >>, 1, 1, 1), CorruptPatched >>,
    << EncPatched(1, 2, << 1, 2, 3 >>, 1, 1, 1), TruncatedDirect >> }

InitPoison ==
  /\ SelectIdle
  /\ MagicIdle
  /\ StatIdle
  /\ BuildIdle
  /\ ColIdle
  /\ MoreIdle
  /\ runs \in PoisonStreams
  /\ stripes = << StripeInfo(StripeOffset(1), Len(AllVals)) >>
  /\ badStripe \in {0, 1}
  /\ badKind = (IF badStripe = 0 THEN "none" ELSE "footer")
  /\ optOffset = 0
  /\ optLength = ULongMax
  /\ currentStripe = CtorCurrentStripe
  /\ lastStripe = CtorLastStripe
  /\ currentRowInStripe = 0
  /\ rowsInCurrentStripe = 0
  /\ previousRow = ULongMax
  /\ capacity \in 1..(MaxCapacity + 1)
  /\ numElements = 0
  /\ ret = "none"
  /\ started = {}
  /\ rowsRead = << 0 >>
  /\ pc = "idle"
  /\ rows = 0
  /\ batches = 0
  /\ seekRet = NoSeek
  /\ stripeRet = NoStripe
  /\ dec = << >>
  /\ lastN = 0
  /\ lastMask = NoMask
  /\ valuesBefore = 0
  /\ valuesRead = 0
  /\ calls = 0
  /\ allMasked = TRUE
  /\ allPlain = TRUE
  /\ location = << >>
  /\ rleRet = "none"
  /\ firstError = "none"
  /\ lastError = "none"

\* the decoder of the long column when reader->next is called: the one
\* buildReader made if startNextStripe has just run, else the one the reader
\* tree holds, as the last call left it
StripeDecoder ==
  IF currentRowInStripe = 0 THEN NewDecoder(Concat(runs, "bytes"), TRUE)
  ELSE [dec EXCEPT !.err = "none"]

\* LongColumnReader::next without a PRESENT stream: rle->next(data, n, nullptr)
LongColumnNext(d, n) == next([d EXCEPT !.data = Buffer(n)], n, NoMask)

\* what next leaves alone in every branch
poisonUnchanged ==
  UNCHANGED <<fileVars, lastStripe, started, rowsRead, pc, rows, batches,
              seekRet, stripeRet, runs, lastMask, valuesBefore, valuesRead,
              calls, allMasked, allPlain, location, rleRet, selectVars, magicVars,
              statVars,
              buildVars, colVars, moreVars>>

\* the first exception a call of next threw is kept
RecordError(e) ==
  /\ lastError' = e
  /\ firstError' = (IF firstError = "none" THEN e ELSE firstError)

\* next, first branch: currentStripe > lastStripe
PoisonNextAtEnd ==
  /\ currentStripe > lastStripe
  /\ numElements' = 0
  /\ previousRow' = WrapULong(FirstRowOfStripe(lastStripe)
                              + stripes[lastStripe + 1].numberofrows)
  /\ ret' = "false"
  /\ lastError' = "none"
  /\ UNCHANGED <<currentStripe, currentRowInStripe, rowsInCurrentStripe, dec,
                 lastN, firstError>>
  /\ poisonUnchanged

\* next, second branch: getStripeFooter throws inside startNextStripe
PoisonStripeFooterFails ==
  /\ currentStripe <= lastStripe
  /\ currentRowInStripe = 0
  /\ badStripe = Cur /\ badKind = "footer"
  /\ ret' = "error"
  /\ RecordError("bad StripeFooter")
  /\ UNCHANGED <<currentStripe, currentRowInStripe, rowsInCurrentStripe,
                 previousRow, numElements, dec, lastN>>
  /\ poisonUnchanged

\* next, second branch: reader->next(data, n, 0) returns; d is the decoder of
\* the long column after it
PoisonNextReadsRows(n, d) ==
  /\ currentStripe <= lastStripe
  /\ ~(currentRowInStripe = 0 /\ badStripe = Cur /\ badKind = "footer")
  /\ ~Failed(d)
  /\ rowsInCurrentStripe' = RowsAfterStart
  /\ numElements' = n
  /\ dec' = d
  /\ lastN' = n
  /\ previousRow' = WrapULong(FirstRowOfStripe(currentStripe)
                              + currentRowInStripe)
  /\ IF currentRowInStripe + n >= RowsAfterStart
     THEN /\ currentStripe' = currentStripe + 1
          /\ currentRowInStripe' = 0
     ELSE /\ currentStripe' = currentStripe
          /\ currentRowInStripe' = currentRowInStripe + n
  /\ ret' = (IF n # 0 THEN "true" ELSE "false")
  /\ lastError' = "none"
  /\ UNCHANGED firstError
  /\ poisonUnchanged

\* next, second branch: reader->next(data, n, 0) throws, after numElements was
\* assigned and before the cursors move; d is the decoder as the throw left it
PoisonColumnReaderFails(n, d) ==
  /\ currentStripe <= lastStripe
  /\ ~(currentRowInStripe = 0 /\ badStripe = Cur /\ badKind = "footer")
  /\ Failed(d)
  /\ rowsInCurrentStripe' = RowsAfterStart
  /\ numElements' = n
  /\ dec' = d
  /\ lastN' = n
  /\ ret' = "error"
  /\ RecordError(d.err)
  /\ UNCHANGED <<currentStripe, currentRowInStripe, previousRow>>
  /\ poisonUnchanged

PoisonReads ==
  PoisonNextReadsRows(
    RowsToRead(RowsAfterStart, currentRowInStripe),
    LongColumnNext(StripeDecoder, RowsToRead(RowsAfterStart, currentRowInStripe)))

PoisonFails ==
  PoisonColumnReaderFails(
    RowsToRead(RowsAfterStart, currentRowInStripe),
    LongColumnNext(StripeDecoder, RowsToRead(RowsAfterStart, currentRowInStripe)))

NextPoison ==
  \/ PoisonNextAtEnd
  \/ PoisonStripeFooterFails
  \/ PoisonReads
  \/ PoisonFails

SpecPoison == InitPoison /\ [][NextPoison]_vars

\* C11: once a call of next has failed on a corrupt stripe, every later call
\* of next fails with the same error and returns no batch.
C11_FailedReaderStaysFailed ==
  firstError # "none" => (ret = "error" /\ lastError = firstError)

\* ============================================ the column readers of a stripe
\* A struct column with one field of kind long, as buildReader makes them for
\* a stripe: the struct reader has a PRESENT stream or none, the long reader
\* a PRESENT stream and a DATA stream of RLE v2.  The caller is the reader of
\* the root, which has no PRESENT stream and passes no mask.

\* const unsigned long N = 64 in RleDecoderV2::skip
N == 64

\* a skip that decodes into its buffer once and drops the rest of the count
skipOneBuffer(d, numValues) ==
  IF numValues = 0 \/ Failed(d) THEN d
  ELSE next([d EXCEPT !.data = Buffer(Min(N, numValues))],
            Min(N, numValues), NoMask)

RECURSIVE skip(_, _)
\* RleDecoderV2::skip: decode numValues values into a buffer of N slots
skip(d, numValues) ==
  IF numValues = 0 \/ Failed(d) THEN d
  ELSE skip(next([d EXCEPT !.data = Buffer(Min(N, numValues))],
                 Min(N, numValues), NoMask),
            numValues - Min(N, numValues))

\* a column without PRESENT stream
NoPresent == [has |-> FALSE, bits |-> << >>]

\* the rows before row i of a batch that the mask m marks as not null
NotNullBefore(m, i) == Cardinality({ j \in 0..(i - 1) : ~IsNullAt(m, j) })

\* bit k of a PRESENT stream; past its end the bit reader has nothing to give
PresentBit(stream, k) == IF k <= Len(stream.bits) THEN stream.bits[k] ELSE 0

\* ColumnReader::next: the notNull of a batch of numValues rows, for a reader
\* that has read pos bits of its PRESENT stream: a bit is read for each row
\* the incoming mask lets through, the other rows are null
columnNotNull(stream, pos, numValues, incomingMask) ==
  IF stream.has
  THEN [has  |-> TRUE,
        bits |-> [i \in 0..(numValues - 1) |->
                    IF IsNullAt(incomingMask, i) THEN 0
                    ELSE PresentBit(stream,
                                    pos + NotNullBefore(incomingMask, i) + 1)]]
  ELSE incomingMask

\* the bits of the PRESENT stream read after that
columnPosition(stream, pos, numValues, incomingMask) ==
  IF stream.has THEN pos + NotNullBefore(incomingMask, numValues) ELSE pos

\* the rows ColumnReader::skip counts when it counts every row
columnSkipCountAll(stream, pos, numValues) == numValues

\* ColumnReader::skip: the PRESENT bits of numValues rows are read, the rows
\* among them that are not null are counted
columnSkipCount(stream, pos, numValues) ==
  IF stream.has
  THEN Cardinality({ k \in (pos + 1)..(pos + numValues) :
                       PresentBit(stream, k) = 1 })
  ELSE numValues

columnSkipPosition(stream, pos, numValues) ==
  IF stream.has THEN pos + numValues ELSE pos

\* reading a PRESENT stream past its end throws
PresentExhausted(stream, pos) == stream.has /\ pos > Len(stream.bits)

\* the readers before the first call
NewTree ==
  [structPos     |-> 0,
   longPos       |-> 0,
   structNotNull |-> NoMask,
   longNotNull   |-> NoMask,
   numElements   |-> 0,
   data          |-> << >>,
   rle           |-> NewDecoder(Concat(runs, "bytes"), TRUE),
   err           |-> "none"]

\* LongColumnReader::next, after rle->next(data, numValues, notNull)
longReaderStore(t, d) == [t EXCEPT !.rle = d, !.data = d.data, !.err = d.err]

\* LongColumnReader::next, after its PRESENT stream was decoded
longReaderDecode(t, numValues, notNull, pos) ==
  IF PresentExhausted(present.long, pos)
  THEN [t EXCEPT !.err = "bad read in PRESENT"]
  ELSE longReaderStore(
         [t EXCEPT !.longNotNull = notNull, !.longPos = pos],
         next([t.rle EXCEPT !.data = Buffer(numValues)], numValues, notNull))

LongColumnReaderNext(t, numValues, incomingMask) ==
  longReaderDecode(
    t, numValues,
    columnNotNull(present.long, t.longPos, numValues, incomingMask),
    columnPosition(present.long, t.longPos, numValues, incomingMask))

\* the mask a struct reader hands to its children when none is taken from
\* the struct at all
EffectiveMaskInherited(notNull, incomingMask) == incomingMask

\* the mask a struct reader hands to its children: the struct's notNull
\* AND the mask it was handed
EffectiveMask(notNull, incomingMask) ==
  IF ~notNull.has THEN incomingMask
  ELSE IF ~incomingMask.has THEN notNull
  ELSE [has  |-> TRUE,
        bits |-> [i \in DOMAIN notNull.bits |->
                    notNull.bits[i] * incomingMask.bits[i]]]

\* StructColumnReader::next, after its PRESENT stream was decoded
structReaderChildren(t, numValues, notNull, pos, incomingMask) ==
  IF PresentExhausted(present.struct, pos)
  THEN [t EXCEPT !.err = "bad read in PRESENT"]
  ELSE LongColumnReaderNext(
         [t EXCEPT !.structNotNull = notNull, !.structPos = pos,
                   !.numElements = numValues],
         numValues, EffectiveMask(notNull, incomingMask))

StructColumnReaderNext(t, numValues, incomingMask) ==
  structReaderChildren(
    t, numValues,
    columnNotNull(present.struct, t.structPos, numValues, incomingMask),
    columnPosition(present.struct, t.structPos, numValues, incomingMask),
    incomingMask)

\* LongColumnReader::skip, after rle->skip(numValues)
longSkipStore(t, d) == [t EXCEPT !.rle = d, !.err = d.err]

\* LongColumnReader::skip, after ColumnReader::skip
longSkipValues(t, numValues) ==
  IF PresentExhausted(present.long, t.longPos)
  THEN [t EXCEPT !.err = "bad read in PRESENT"]
  ELSE longSkipStore(t, skip(t.rle, numValues))

LongColumnReaderSkip(t, numValues) ==
  longSkipValues(
    [t EXCEPT !.longPos = columnSkipPosition(present.long, t.longPos, numValues)],
    columnSkipCount(present.long, t.longPos, numValues))

StructColumnReaderSkip(t, numValues) ==
  IF PresentExhausted(present.struct,
                      columnSkipPosition(present.struct, t.structPos, numValues))
  THEN [t EXCEPT !.err = "bad read in PRESENT"]
  ELSE LongColumnReaderSkip(
         [t EXCEPT !.structPos =
            columnSkipPosition(present.struct, t.structPos, numValues)],
         columnSkipCount(present.struct, t.structPos, numValues))

\* the PRESENT streams of a column that holds ones values and at most nulls
\* null rows
BitStreams(ones, nulls) ==
  { b \in UNION { [1..(ones + z) -> {0, 1}] : z \in 0..nulls } :
      Cardinality({ k \in DOMAIN b : b[k] = 1 }) = ones }

\* the PRESENT streams of a column that holds ones values, more than a call
\* of skip decodes at once: no null row, or one null row at the start, at
\* the end, or where the buffer of skip ends
LongBitStreams(ones) ==
  { [k \in 1..ones |-> 1] } \cup
  { [k \in 1..(ones + 1) |-> IF k = p THEN 0 ELSE 1] :
      p \in {1, 2, N, N + 1, ones + 1} }

\* the PRESENT streams of a column that holds ones values
PresentStreams(ones) ==
  IF ones > N THEN LongBitStreams(ones)
  ELSE BitStreams(ones, MaxPresentNulls)

\* a DATA stream of more than N values: 7 runs of 10 values, 0 .. 69
LongStream ==
  [k \in 1..7 |-> EncDirect(TRUE, 8, [i \in 1..10 |-> 10 * (k - 1) + i - 1])]

\* the DATA streams of the long column
ColumnStreams ==
  { << EncShortRepeat(TRUE, 0 - 2, 3) >>,
    << EncDelta(TRUE, 0 - 1, 1, 2, << 2, 1 >>) >>,
    << EncPatched(1, 2, << 1, 2, 3 >>, 1, 1, 1) >>,
    << EncDirect(TRUE, 4, << 5 >>), EncDeltaFixed(TRUE, 2, 0 - 1, 2) >> }

\* the rows of the stripe
StripeRows ==
  IF present.struct.has THEN Len(present.struct.bits)
  ELSE Len(present.long.bits)

RECURSIVE RowsOf(_)
\* the rows the calls of a trace have passed
RowsOf(tr) == IF tr = << >> THEN 0 ELSE Head(tr).n + RowsOf(Tail(tr))

InitColumn ==
  /\ ReaderIdle
  /\ SelectIdle
  /\ MagicIdle
  /\ PoisonIdle
  /\ StatIdle
  /\ BuildIdle
  /\ MoreIdle
  /\ runs \in ColumnStreams \cup {LongStream}
  /\ dec = << >>
  /\ lastN = 0
  /\ lastMask = << >>
  /\ valuesBefore = 0
  /\ valuesRead = 0
  /\ calls = 0
  /\ allMasked = TRUE
  /\ allPlain = TRUE
  /\ location = << >>
  /\ rleRet = "none"
  /\ \E lb \in PresentStreams(Len(AllVals)) :
       \E sp \in {NoPresent} \cup
                 { [has |-> TRUE, bits |-> sb] :
                     sb \in IF Len(lb) > N THEN {}
                            ELSE BitStreams(Len(lb), MaxPresentNulls) } :
         present = [struct |-> sp, long |-> [has |-> TRUE, bits |-> lb]]
  /\ tree = NewTree
  /\ trace = << >>

columnUnchanged ==
  UNCHANGED <<present, readerVars, rleVars, selectVars, magicVars, poisonVars,
              statVars, buildVars, moreVars>>

\* the reader of the root calls next on the struct reader for the next
\* numValues rows of the stripe
ColumnNext(numValues) ==
  /\ Len(trace) < MaxTrace
  /\ tree.err = "none"
  /\ RowsOf(trace) + numValues <= StripeRows
  /\ tree' = StructColumnReaderNext(tree, numValues, NoMask)
  /\ trace' = Append(trace, [op |-> "next", n |-> numValues])
  /\ columnUnchanged

\* the reader of the root calls skip on the struct reader, after a call of
\* next
ColumnSkip(numValues) ==
  /\ Len(trace) < MaxTrace
  /\ trace # << >>
  /\ trace[Len(trace)].op = "next"
  /\ tree.err = "none"
  /\ RowsOf(trace) + numValues <= StripeRows
  /\ tree' = StructColumnReaderSkip(tree, numValues)
  /\ trace' = Append(trace, [op |-> "skip", n |-> numValues])
  /\ columnUnchanged

\* the sizes of the calls: any for a stripe of few rows, else few rows or
\* about as many as skip decodes at once
CallSizes == IF StripeRows > N THEN {1, 2, N, N + 1} ELSE 1..StripeRows

NextColumn ==
  \/ \E numValues \in CallSizes : ColumnNext(numValues)
  \/ \E numValues \in CallSizes : ColumnSkip(numValues)

SpecColumn == InitColumn /\ [][NextColumn]_vars

\* ------------------------------------------ the rows of the stripe, as the
\* streams hold them; rows are counted from 1

\* the rows among the first g whose struct is not null
StructOnes(g) ==
  IF present.struct.has
  THEN Cardinality({ k \in 1..g : present.struct.bits[k] = 1 })
  ELSE g

\* the bits among the first k of the long column's PRESENT stream that are set
LongOnes(k) == Cardinality({ j \in 1..k : present.long.bits[j] = 1 })

\* the struct of row g is not null
StructNotNullAt(g) == ~present.struct.has \/ present.struct.bits[g] = 1

\* the long of row g is not null: its struct is not null, and the bit the
\* long column holds for that struct is set
LongNotNullAt(g) ==
  StructNotNullAt(g) /\ present.long.bits[StructOnes(g)] = 1

\* the values of the DATA stream in the order the decoder yields them when
\* nothing is masked
PlainValues ==
  next([NewDecoder(Concat(runs, "bytes"), TRUE)
          EXCEPT !.data = Buffer(Len(AllVals))],
       Len(AllVals), NoMask).data

\* the value of row g, if its long is not null, vs being the values of the
\* DATA stream in order
ValueAt(vs, g) == vs[LongOnes(StructOnes(g)) - 1]

\* the rows passed before the last call of the trace
FirstRow == RowsOf(SubSeq(trace, 1, Len(trace) - 1))

\* every call so far was a call of next
OnlyNext == \A k \in DOMAIN trace : trace[k].op = "next"

\* the last call returned a batch
BatchReturned ==
  /\ trace # << >>
  /\ trace[Len(trace)].op = "next"
  /\ tree.err = "none"

\* C12: in every batch a struct reader with nested PRESENT streams returns, a
\* row whose long is not null has a struct that is not null; the long column's
\* PRESENT stream has given one bit for each row whose struct is not null, in
\* order, and its DATA stream one value for each row whose long is not null,
\* in order.
C12_ChildNullWhereStructNull ==
  (BatchReturned /\ OnlyNext) =>
    LET vs == PlainValues
    IN  /\ tree.longPos = StructOnes(RowsOf(trace))
        /\ \A i \in 0..(tree.numElements - 1) :
             /\ tree.longNotNull.bits[i] = 1 => ~IsNullAt(tree.structNotNull, i)
             /\ ~IsNullAt(tree.structNotNull, i)
                  <=> StructNotNullAt(FirstRow + i + 1)
             /\ tree.longNotNull.bits[i] = 1 <=> LongNotNullAt(FirstRow + i + 1)
             /\ tree.longNotNull.bits[i] = 1 =>
                  tree.data[i] = ValueAt(vs, FirstRow + i + 1)

\* a second batch was returned that holds a row whose struct is null and a
\* row whose struct is not null and whose long is null, after the long
\* column has given values
C12_Witness ==
  /\ BatchReturned /\ OnlyNext
  /\ Len(trace) = 2
  /\ present.struct.has
  /\ \E i \in 0..(tree.numElements - 1) : IsNullAt(tree.structNotNull, i)
  /\ \E i \in 0..(tree.numElements - 1) :
       ~IsNullAt(tree.structNotNull, i) /\ tree.longNotNull.bits[i] = 0
  /\ \E i \in 0..(tree.numElements - 1) : tree.longNotNull.bits[i] = 1
  /\ LongOnes(StructOnes(FirstRow)) > 0

\* the calls so far are next(a); skip(b), or next(a); skip(b); next(c)
NextSkip ==
  /\ Len(trace) >= 2
  /\ trace[1].op = "next"
  /\ trace[2].op = "skip"

NextSkipNext ==
  /\ NextSkip
  /\ Len(trace) = 3
  /\ trace[3].op = "next"

\* the rows of the trace read in one call of next by readers made anew
Contiguous == StructColumnReaderNext(NewTree, RowsOf(trace), NoMask)

\* row i of the last batch is row j of the batch r, flags and value
SameRow(i, r, j) ==
  /\ IsNullAt(tree.structNotNull, i) <=> IsNullAt(r.structNotNull, j)
  /\ tree.longNotNull.bits[i] = r.longNotNull.bits[j]
  /\ tree.longNotNull.bits[i] = 1 => tree.data[i] = r.data[j]

\* C13: after next(a); skip(b) the struct reader has read a + b bits of its
\* PRESENT stream and the long reader one bit for each of these rows whose
\* struct is not null; next(c) then returns a batch exactly when one
\* contiguous read of the a + b + c rows does, and the batch holds the rows
\* a+b .. a+b+c-1 of that read, flags and values: the skip has consumed as
\* many values as there are non-null longs among the skipped rows.
C13_SkipLandsOnTheNextRows ==
  /\ (NextSkip /\ Len(trace) = 2 /\ tree.err = "none") =>
       /\ present.struct.has => tree.structPos = RowsOf(trace)
       /\ tree.longPos = StructOnes(RowsOf(trace))
  /\ NextSkipNext =>
       LET r == Contiguous
           vs == PlainValues
       IN  /\ tree.err = "none" <=> r.err = "none"
           /\ tree.err = "none" =>
                /\ tree.numElements = trace[3].n
                /\ \A i \in 0..(trace[3].n - 1) :
                     /\ SameRow(i, r, FirstRow + i)
                     /\ tree.longNotNull.bits[i] = 1 =>
                          tree.data[i] = ValueAt(vs, FirstRow + i + 1)

\* next(a); skip(b); next(c) returned a batch with a long that is not null,
\* and the skipped rows hold a long that is null and one that is not
C13_Witness ==
  /\ NextSkipNext
  /\ tree.err = "none"
  /\ \E i \in 0..(trace[3].n - 1) : tree.longNotNull.bits[i] = 1
  /\ \E g \in (trace[1].n + 1)..(trace[1].n + trace[2].n) : ~LongNotNullAt(g)
  /\ \E g \in (trace[1].n + 1)..(trace[1].n + trace[2].n) : LongNotNullAt(g)

\* ============================================== skip on an RleDecoderV2
\* A decoder made anew over a stream of runs; its caller calls skip and then
\* next without a mask.

InitSkip ==
  /\ ExtraIdle
  /\ ReaderIdle
  /\ SelectIdle
  /\ MagicIdle
  /\ \E signed \in BOOLEAN :
       /\ runs \in RunLists(signed) \cup (IF signed THEN {LongStream} ELSE {})
       /\ dec = NewDecoder(Concat(runs, "bytes"), signed)
  /\ lastN = 0
  /\ lastMask = NoMask
  /\ valuesBefore = 0
  /\ valuesRead = 0
  /\ calls = 0
  /\ allMasked = TRUE
  /\ allPlain = TRUE
  /\ location = << >>
  /\ rleRet = "none"

\* the values skipped: any number for a short stream, else none, a few,
\* or about as many as skip decodes at once
SkipSizes ==
  IF Len(AllVals) > N THEN {0, 1, N - 1, N, N + 1, N + 5}
  ELSE 0..Len(AllVals)

skipUnchanged ==
  UNCHANGED <<runs, lastMask, allMasked, allPlain, location, readerVars, selectVars,
              magicVars, extraVars>>

\* skip(numValues); d is the decoder after the call
CallSkip(numValues, d) ==
  /\ calls = 0
  /\ calls' = 1
  /\ dec' = d
  /\ rleRet' = (IF Failed(d) THEN "error" ELSE "ok")
  /\ valuesBefore' = numValues
  /\ valuesRead' = numValues
  /\ lastN' = 0
  /\ skipUnchanged

RleSkip == \E numValues \in SkipSizes : CallSkip(numValues, skip(dec, numValues))

\* next(data, k, nullptr) after the call of skip; d is the decoder after it
CallNextAfterSkip(k, d) ==
  /\ calls = 1
  /\ rleRet = "ok"
  /\ calls' = 2
  /\ dec' = d
  /\ rleRet' = (IF Failed(d) THEN "error" ELSE "ok")
  /\ lastN' = k
  /\ valuesRead' = valuesRead + k
  /\ UNCHANGED valuesBefore
  /\ skipUnchanged

RleNextAfterSkip ==
  \E k \in 0..Min(Len(AllVals) - valuesRead, MaxAfterSkip) :
     CallNextAfterSkip(k, DecoderAfterNext(k, NoMask))

NextRleSkip == RleSkip \/ RleNextAfterSkip

SpecSkip == InitSkip /\ [][NextRleSkip]_vars

\* C24: skip(n) followed by next(dst, k, no mask) on a fresh decoder returns
\* and leaves in dst the values that one call next(dst', n + k, no mask) on a
\* fresh decoder leaves at the positions n .. n+k-1.
C24_SkipThenNext ==
  calls = 2 =>
    LET whole == OneCall(valuesRead)
    IN /\ rleRet = "ok" <=> ~Failed(whole)
       /\ rleRet = "ok" =>
            \A i \in 0..(lastN - 1) : dec.data[i] = whole.data[valuesBefore + i]

\* skip(n) for more values than skip decodes at once, ending in the middle
\* of a run, was followed by a next that returned the three values after it
C24_Witness ==
  /\ calls = 2
  /\ rleRet = "ok"
  /\ valuesBefore = N + 1
  /\ lastN = 3
  /\ dec.data[0] = N + 1
  /\ dec.data[2] = N + 3

\* ------------------------------------------------- seek on an RleDecoderV2

\* the values read after a seek, at most
MaxAfterSeek == 3

\* RleDecoderV2::seek: inputStream->seek(location) moves the stream to the
\* byte of the position, bufferEnd = bufferStart = 0 drops the window (the
\* next readByte takes the byte at pos), runRead = runLength = 0, and
\* skip(location.next()); every other member keeps its value
seek(d, byte, values) ==
  skip([d EXCEPT !.pos = byte, !.runRead = 0, !.runLength = 0], values)

RECURSIVE RunStart(_, _)
\* the byte at which run r of the runs rs starts: the positions of a row
\* index point at the start of a run
RunStart(rs, r) ==
  IF r = 1 THEN 1 ELSE Len(Head(rs).bytes) + RunStart(Tail(rs), r - 1)

RECURSIVE ValuesFrom(_, _)
\* the values of the runs rs from run r on
ValuesFrom(rs, r) ==
  IF r = 1 THEN Len(Concat(rs, "vals")) ELSE ValuesFrom(Tail(rs), r - 1)

\* a decoder over one or two runs, not yet used
InitSeek ==
  /\ ExtraIdle
  /\ ReaderIdle
  /\ SelectIdle
  /\ MagicIdle
  /\ \E signed \in BOOLEAN :
       /\ runs \in RunLists(signed)
       /\ dec = NewDecoder(Concat(runs, "bytes"), signed)
  /\ lastN = 0
  /\ lastMask = NoMask
  /\ valuesBefore = 0
  /\ valuesRead = 0
  /\ calls = 0
  /\ allMasked = TRUE
  /\ allPlain = TRUE
  /\ location = << >>
  /\ rleRet = "none"

seekUnchanged ==
  UNCHANGED <<runs, lastMask, allMasked, allPlain, readerVars, selectVars,
              magicVars, extraVars>>

\* next(data, n, nullptr) before any seek; d is the decoder after the call
CallNextBeforeSeek(n, d) ==
  /\ calls = 0
  /\ calls' = 1
  /\ dec' = d
  /\ rleRet' = (IF Failed(d) THEN "error" ELSE "ok")
  /\ lastN' = n
  /\ valuesRead' = n
  /\ UNCHANGED <<valuesBefore, location>>
  /\ seekUnchanged

RleNextBeforeSeek ==
  \E n \in 1..Len(AllVals) : CallNextBeforeSeek(n, DecoderAfterNext(n, NoMask))

\* seek(location) to the start of run r and values values further on; d is
\* the decoder after the call
CallSeek(r, values, d) ==
  /\ calls <= 1
  /\ rleRet # "error"
  /\ calls' = 2
  /\ dec' = d
  /\ rleRet' = (IF Failed(d) THEN "error" ELSE "ok")
  /\ location' = <<RunStart(runs, r), values>>
  /\ valuesBefore' = Len(AllVals) - ValuesFrom(runs, r) + values
  /\ valuesRead' = Len(AllVals) - ValuesFrom(runs, r) + values
  /\ lastN' = 0
  /\ seekUnchanged

RleSeek ==
  \E r \in 1..Len(runs) : \E values \in 0..ValuesFrom(runs, r) :
     CallSeek(r, values, seek(dec, RunStart(runs, r), values))

\* next(data, k, nullptr) after the seek; d is the decoder after the call
CallNextAfterSeek(k, d) ==
  /\ calls = 2
  /\ rleRet = "ok"
  /\ calls' = 3
  /\ dec' = d
  /\ rleRet' = (IF Failed(d) THEN "error" ELSE "ok")
  /\ lastN' = k
  /\ valuesRead' = valuesRead + k
  /\ UNCHANGED <<valuesBefore, location>>
  /\ seekUnchanged

RleNextAfterSeek ==
  \E k \in 1..Min(Len(AllVals) - valuesRead, MaxAfterSeek) :
     CallNextAfterSeek(k, DecoderAfterNext(k, NoMask))

NextSeek == RleNextBeforeSeek \/ RleSeek \/ RleNextAfterSeek

SpecSeek == InitSeek /\ [][NextSeek]_vars

\* a newly constructed decoder over the same stream, moved to the byte of
\* the position, after skip(values) and one next for n values
FreshAt(byte, values, n) ==
  LET fresh == skip([NewDecoder(Concat(runs, "bytes"), dec.isSigned)
                       EXCEPT !.pos = byte], values)
  IN next([fresh EXCEPT !.data = Buffer(n)], n, NoMask)

\* C25: after seek(position), a next returns what a newly constructed decoder
\* returns that was moved to the same byte and skipped the same number of
\* values; nothing the decoder did before the seek shows in the values
C25_SeekForgetsTheRun ==
  calls = 3 =>
    LET fresh == FreshAt(location[1], location[2], lastN)
    IN /\ rleRet = "ok" <=> ~Failed(fresh)
       /\ rleRet = "ok" => \A i \in 0..(lastN - 1) : dec.data[i] = fresh.data[i]


\* --------------------------------------------- the bit widths of RLE v2

\* the parts of the state the bit widths do not use
WidthOthersIdle ==
  /\ ReaderIdle
  /\ RleIdle
  /\ SelectIdle
  /\ MagicIdle
  /\ PoisonIdle
  /\ StatIdle
  /\ BuildIdle
  /\ ColIdle
  /\ OptionsIdle

\* a number of bits of a long, 0..64, and a width code of five bits
InitWidth ==
  /\ WidthOthersIdle
  /\ numBits \in 0..64
  /\ code \in 0..31
  /\ closestRet = NotCalled
  /\ widthRet = NotCalled

widthUnchanged ==
  UNCHANGED <<numBits, code, readerVars, rleVars, selectVars, magicVars,
              poisonVars, statVars, buildVars, colVars, optionVars>>

\* getClosestFixedBits(numBits)
CallGetClosestFixedBits ==
  /\ ~closestRet.called
  /\ closestRet' = [called |-> TRUE, value |-> getClosestFixedBits(numBits)]
  /\ UNCHANGED widthRet
  /\ widthUnchanged

\* decodeBitWidth(code)
CallDecodeBitWidth ==
  /\ ~widthRet.called
  /\ widthRet' = [called |-> TRUE, value |-> decodeBitWidth(code)]
  /\ UNCHANGED closestRet
  /\ widthUnchanged

NextWidth == CallGetClosestFixedBits \/ CallDecodeBitWidth

SpecWidth == InitWidth /\ [][NextWidth]_vars

\* the bit widths a run can be stored with
W == (1..24) \cup {26, 28, 30, 32, 40, 48, 56, 64}

\* C27: for 0..64 bits getClosestFixedBits returns a width of W that is not
\* smaller than its argument, and for 1..64 bits the least such width;
\* decodeBitWidth maps the codes 0..31 one-to-one onto W, and
\* getClosestFixedBits leaves every decoded width as it is.
C27_FixedBitWidths ==
  /\ closestRet.called =>
       /\ closestRet.value \in W
       /\ closestRet.value >= numBits
       /\ numBits >= 1 => \A w \in W : w >= numBits => closestRet.value <= w
  /\ widthRet.called =>
       /\ widthRet.value \in W
       /\ \A c \in 0..31 : decodeBitWidth(c) = widthRet.value => c = code
       /\ \A w \in W : \E c \in 0..31 : decodeBitWidth(c) = w
       /\ getClosestFixedBits(widthRet.value) = widthRet.value

\* 33 bits were rounded up to 40, and the code 28 was decoded as 40
C27_Witness ==
  /\ closestRet.called
  /\ numBits = 33
  /\ closestRet.value = 40
  /\ widthRet.called
  /\ code = 28
  /\ widthRet.value = 40

\* ------------------------------------------------------- ReaderOptions

\* ReaderOptionsPrivate::ReaderOptionsPrivate
DefaultPrivate ==
  [includedColumns |-> <<0>>,
   dataStart |-> 0,
   dataLength |-> ULongMax,
   tailLocation |-> ULongMax,
   throwOnHive11DecimalOverflow |-> TRUE,
   forcedScaleOnHive11Decimal |-> 6,
   errorStream |-> "cerr"]

\* option values that differ from the defaults
OtherPrivate ==
  [includedColumns |-> <<1, 2>>,
   dataStart |-> 1,
   dataLength |-> 1,
   tailLocation |-> 1,
   throwOnHive11DecimalOverflow |-> FALSE,
   forcedScaleOnHive11Decimal |-> 0,
   errorStream |-> "other"]

\* the arguments the callers of the model pass to the setters
SetterValues == {DefaultPrivate, OtherPrivate}

\* the option values an object can hold
OptionValues ==
  [includedColumns : {DefaultPrivate.includedColumns, OtherPrivate.includedColumns},
   dataStart : {DefaultPrivate.dataStart, OtherPrivate.dataStart},
   dataLength : {DefaultPrivate.dataLength, OtherPrivate.dataLength},
   tailLocation : {DefaultPrivate.tailLocation, OtherPrivate.tailLocation},
   throwOnHive11DecimalOverflow : BOOLEAN,
   forcedScaleOnHive11Decimal : {DefaultPrivate.forcedScaleOnHive11Decimal,
                                 OtherPrivate.forcedScaleOnHive11Decimal},
   errorStream : {DefaultPrivate.errorStream, OtherPrivate.errorStream}]

\* a ReaderOptions object: privateBits is << >> for the null pointer and
\* <<p>> when it owns the ReaderOptionsPrivate p
NoObject == [alive |-> FALSE, privateBits |-> << >>]

Object(p) == [alive |-> TRUE, privateBits |-> <<p>>]

\* privateBits.get() != nullptr
HasPrivate(o) == o.privateBits # << >>

\* new ReaderOptionsPrivate(*(rhs.privateBits.get())): a copy of the values
CopyOfPrivate(o) == <<o.privateBits[1]>>

\* include, range, setTailLocation, throwOnHive11DecimalOverflow,
\* forcedScaleOnHive11Decimal and setErrorStream: the ReaderOptionsPrivate p
\* after one of them was called with values of v
Setters(p, v) ==
  { [p EXCEPT !.includedColumns = v.includedColumns],
    [p EXCEPT !.dataStart = v.dataStart, !.dataLength = v.dataLength],
    [p EXCEPT !.tailLocation = v.tailLocation],
    [p EXCEPT !.throwOnHive11DecimalOverflow = v.throwOnHive11DecimalOverflow],
    [p EXCEPT !.forcedScaleOnHive11Decimal = v.forcedScaleOnHive11Decimal],
    [p EXCEPT !.errorStream = v.errorStream] }

\* the parts of the state the options do not use
OptionsOthersIdle ==
  /\ ReaderIdle
  /\ RleIdle
  /\ SelectIdle
  /\ MagicIdle
  /\ PoisonIdle
  /\ StatIdle
  /\ BuildIdle
  /\ ColIdle
  /\ WidthIdle

\* ReaderOptions::ReaderOptions() for rhs; the other object is not yet there
InitOptions ==
  /\ OptionsOthersIdle
  /\ rhs = Object(DefaultPrivate)
  /\ self = NoObject
  /\ optionsCall = "none"

optionsUnchanged ==
  UNCHANGED <<readerVars, rleVars, selectVars, magicVars, poisonVars,
              statVars, buildVars, colVars, widthVars>>

\* ReaderOptions::ReaderOptions() for the second object
DefaultConstruct ==
  /\ optionsCall # "crash"
  /\ ~self.alive
  /\ self' = Object(DefaultPrivate)
  /\ optionsCall' = "default"
  /\ UNCHANGED rhs
  /\ optionsUnchanged

\* ReaderOptions::ReaderOptions(const ReaderOptions& rhs): the source is
\* seen through a const reference
CopyConstructFromConst ==
  /\ optionsCall # "crash"
  /\ ~self.alive
  /\ HasPrivate(rhs)
  /\ self' = [alive |-> TRUE, privateBits |-> CopyOfPrivate(rhs)]
  /\ optionsCall' = "copy const"
  /\ UNCHANGED rhs
  /\ optionsUnchanged

\* ReaderOptions::ReaderOptions(ReaderOptions& rhs): the source is an object
\* that is not const.  privateBits of the new object starts as the null
\* pointer: l = privateBits.release() is null, the new object takes the
\* pointer rhs releases, and rhs.privateBits.reset(l) leaves rhs with null
CopyConstruct ==
  /\ optionsCall # "crash"
  /\ ~self.alive
  /\ self' = [alive |-> TRUE, privateBits |-> rhs.privateBits]
  /\ rhs' = [rhs EXCEPT !.privateBits = << >>]
  /\ optionsCall' = "copy"
  /\ optionsUnchanged

\* ReaderOptions::operator=(const ReaderOptions& rhs), this != &rhs;
\* *(rhs.privateBits.get()) of a null pointer is undefined: the process
\* dies, or the copy holds whatever is read through the pointer
Assign ==
  /\ optionsCall # "crash"
  /\ self.alive
  /\ IF HasPrivate(rhs)
     THEN /\ self' = [self EXCEPT !.privateBits = CopyOfPrivate(rhs)]
          /\ optionsCall' = "assign"
     ELSE \/ /\ optionsCall' = "crash"
             /\ UNCHANGED self
          \/ /\ \E p \in OptionValues : self' = [self EXCEPT !.privateBits = <<p>>]
             /\ optionsCall' = "assign"
  /\ UNCHANGED rhs
  /\ optionsUnchanged

\* one of the setters called on rhs; privateBits-> of a null pointer is
\* undefined: the process dies, or the store goes somewhere else
SetOnRhs ==
  /\ optionsCall # "crash"
  /\ IF HasPrivate(rhs)
     THEN /\ \E v \in SetterValues : \E p \in Setters(rhs.privateBits[1], v) :
               rhs' = [rhs EXCEPT !.privateBits = <<p>>]
          /\ optionsCall' = "set rhs"
     ELSE /\ optionsCall' \in {"crash", "set rhs"}
          /\ UNCHANGED rhs
  /\ UNCHANGED self
  /\ optionsUnchanged

\* one of the setters called on the second object
SetOnSelf ==
  /\ optionsCall # "crash"
  /\ self.alive
  /\ HasPrivate(self)
  /\ \E v \in SetterValues : \E p \in Setters(self.privateBits[1], v) :
        self' = [self EXCEPT !.privateBits = <<p>>]
  /\ optionsCall' = "set self"
  /\ UNCHANGED rhs
  /\ optionsUnchanged

\* one of the getters called on rhs; through a null pointer the process
\* dies or the getter returns whatever it reads
GetOnRhs ==
  /\ optionsCall # "crash"
  /\ IF HasPrivate(rhs)
     THEN optionsCall' = "get rhs"
     ELSE optionsCall' \in {"crash", "get rhs"}
  /\ UNCHANGED <<rhs, self>>
  /\ optionsUnchanged

NextOptions ==
  \/ DefaultConstruct
  \/ CopyConstructFromConst
  \/ CopyConstruct
  \/ Assign
  \/ SetOnRhs
  \/ SetOnSelf
  \/ GetOnRhs

SpecOptions == InitOptions /\ [][NextOptions]_vars

\* the step is a copy construction or an assignment from a readable source
CopiedOrAssigned ==
  /\ HasPrivate(rhs)
  /\ optionsCall' \in {"copy const", "copy", "assign"}

\* C30: a ReaderOptions constructed from another one, const or not, or
\* assigned from it has the option values of the source, the source keeps
\* its values and can still be read, and a setter called on one of the
\* two objects later leaves the other as it is.
C30_CopyLeavesTheSource ==
  [][/\ CopiedOrAssigned =>
          /\ self'.privateBits = rhs.privateBits
          /\ rhs' = rhs
          /\ HasPrivate(rhs')
     /\ optionsCall' = "set rhs" => self' = self
     /\ optionsCall' = "set self" => rhs' = rhs]_vars

====
